---- MODULE Spec2Model ----
(***************************************************************************)
(* A model of wasc (Websites Accessibility Criteria Checker): the URL      *)
(* resolver and link locator of wasc/utils.py, the checkers of             *)
(* wasc/checkers.py, run over parsed documents, the factory of             *)
(* wasc/checker_factory.py and the constructor of wasc/criterion.py.       *)
(*                                                                         *)
(* A Python str is a sequence of one-character strings, so that strip,     *)
(* split, join, startswith and endswith are computed as Python computes    *)
(* them.  The text of a text node is a sequence of tokens (words, spaces,  *)
(* colons), on which the regular expressions are matched.                  *)
(***************************************************************************)
EXTENDS Integers, Sequences, FiniteSets, TLC

VARIABLES
    phase,       \* which step of the modelled run has been taken
    target_url,  \* check_and_correct_url: the possibly truncated URL
    root_url,    \* the root URL of the analysed page
    access_url,  \* check_and_correct_url(target_url, root_url)
    again_url,   \* check_and_correct_url(access_url, root_url)
    web_page,    \* the parsed document handed to a checker
    access_tag,  \* find_link: the node the walk starts at
    checker,     \* the name of the checker that was executed
    result,      \* what its execute did: [kind |-> "value", value |-> v],
                 \* or [kind |-> "raise", error |-> e]
    response,    \* what fetch_url gave to the checker that called it
    fetched,     \* the URLs handed to fetch_url by the last execute, in order
    checker_dict,\* CheckerFactory: the registered names and their classes
    registered,  \* the register calls made so far, in order
    created,     \* the instances built by create so far
    criterion,   \* the Criterion objects that were constructed, in order
    call,        \* the last call on the factory or on Criterion, with its arguments
    executed,    \* the checkers the last Criterion.execute or run executed, in order
    websites,    \* the wasc command: the (label, URL) pairs read_websites gave
    pending,     \* the URLs of the download buffer that are not yet yielded
    results,     \* the rows of results, in the order they were appended
    iter_limit   \* DFTT05.execute: the levels its search may still examine

netVars == <<response, fetched>>
runVars == <<websites, pending, results, iter_limit>>
factoryVars == <<checker_dict, registered, created, criterion, call, executed, runVars>>

vars == <<phase, target_url, root_url, access_url, again_url, web_page, access_tag, checker, result,
          netVars, factoryVars>>

NoValue == "-"

DOCUMENT == 0         \* the BeautifulSoup object, as a node
NONE == -1            \* Python's None, where a node is expected

\* no fetch was made, no factory is in use
NoResponse == [kind |-> "unused", status |-> 0, data |-> <<>>]
NoNet == response = NoResponse /\ fetched = <<>>
NoCall == [op |-> "", name |-> "", class |-> "", checkers |-> <<>>]
\* the wasc command has not run, DFTT05 is not searching
NoRun ==
    /\ websites = <<>>
    /\ pending = {}
    /\ results = <<>>
    /\ iter_limit = 0

NoFactory ==
    /\ checker_dict = <<>>
    /\ registered = <<>>
    /\ created = <<>>
    /\ criterion = <<>>
    /\ call = NoCall
    /\ executed = <<>>
    /\ NoRun

-----------------------------------------------------------------------------
(* Python str operations, on sequences of characters.                      *)

SLASH == "/"

RECURSIVE LStrip(_, _)
\* str.lstrip(chars): drop the leading characters that are in chars
LStrip(s, chars) ==
    IF s # <<>> /\ Head(s) \in chars THEN LStrip(Tail(s), chars) ELSE s

RECURSIVE RStrip(_, _)
\* str.rstrip(chars): drop the trailing characters that are in chars
RStrip(s, chars) ==
    IF s # <<>> /\ s[Len(s)] \in chars
    THEN RStrip(SubSeq(s, 1, Len(s) - 1), chars)
    ELSE s

\* str.strip(chars)
StripChars(s, chars) == RStrip(LStrip(s, chars), chars)

\* str.startswith(prefix)
StartsWith(s, prefix) ==
    /\ Len(s) >= Len(prefix)
    /\ SubSeq(s, 1, Len(prefix)) = prefix

\* str.endswith(suffix)
EndsWith(s, suffix) ==
    /\ Len(s) >= Len(suffix)
    /\ SubSeq(s, Len(s) - Len(suffix) + 1, Len(s)) = suffix

RECURSIVE Split(_, _)
\* str.split(sep): "a//b" gives <<"a", "", "b">>, "" gives <<"">>
Split(s, sep) ==
    IF \A i \in 1..Len(s) : s[i] # sep
    THEN <<s>>
    ELSE LET i == CHOOSE k \in 1..Len(s) :
                      s[k] = sep /\ \A j \in 1..(k - 1) : s[j] # sep
         IN <<SubSeq(s, 1, i - 1)>> \o Split(SubSeq(s, i + 1, Len(s)), sep)

RECURSIVE Join(_, _)
\* sep.join(parts)
Join(parts, sep) ==
    IF parts = <<>> THEN <<>>
    ELSE IF Len(parts) = 1 THEN parts[1]
    ELSE parts[1] \o <<sep>> \o Join(Tail(parts), sep)

HTTP == <<"h", "t", "t", "p">>

-----------------------------------------------------------------------------
(* wasc/utils.py: check_and_correct_url                                    *)

\* the resolver without the test for an already absolute URL
check_and_correct_url_no_http(target, root) ==
    LET t == StripChars(target, {SLASH})
        r == StripChars(root, {SLASH})
        target_subpath == Split(t, SLASH)
        root_subpath == Split(r, SLASH)
    IN  IF target_subpath[1] = root_subpath[Len(root_subpath)]
        THEN r \o <<SLASH>> \o Join(Tail(target_subpath), SLASH)
        ELSE r \o <<SLASH>> \o t

\* the resolver without the overlap test
check_and_correct_url_no_overlap(target, root) ==
    LET t == StripChars(target, {SLASH})
        r == StripChars(root, {SLASH})
    IN  IF StartsWith(t, HTTP) THEN t ELSE r \o <<SLASH>> \o t

\* the resolver that takes only "https" for the start of an absolute URL
check_and_correct_url_https(target, root) ==
    LET t == StripChars(target, {SLASH})
        r == StripChars(root, {SLASH})
        target_subpath == Split(t, SLASH)
        root_subpath == Split(r, SLASH)
    IN  IF StartsWith(t, HTTP \o <<"s">>) THEN t
        ELSE IF target_subpath[1] = root_subpath[Len(root_subpath)]
        THEN r \o <<SLASH>> \o Join(Tail(target_subpath), SLASH)
        ELSE r \o <<SLASH>> \o t

\* the resolver that compares with the first segment of the root, not the last
check_and_correct_url_first_segment(target, root) ==
    LET t == StripChars(target, {SLASH})
        r == StripChars(root, {SLASH})
        target_subpath == Split(t, SLASH)
        root_subpath == Split(r, SLASH)
    IN  IF StartsWith(t, HTTP) THEN t
        ELSE IF target_subpath[1] = root_subpath[1]
        THEN r \o <<SLASH>> \o Join(Tail(target_subpath), SLASH)
        ELSE r \o <<SLASH>> \o t

check_and_correct_url(target, root) ==
    LET t == StripChars(target, {SLASH})
        r == StripChars(root, {SLASH})
        target_subpath == Split(t, SLASH)
        root_subpath == Split(r, SLASH)
    IN  IF StartsWith(t, HTTP) THEN t
        ELSE IF target_subpath[1] = root_subpath[Len(root_subpath)]
        THEN r \o <<SLASH>> \o Join(Tail(target_subpath), SLASH)
        ELSE r \o <<SLASH>> \o t

-----------------------------------------------------------------------------
(* The URL resolver applied to bounded inputs, then to its own output.     *)

MaxTargetPieces == 3
MaxRootPieces == 3

\* what the strings handed to the resolver are made of
UrlPieces == {<<SLASH>>, HTTP, <<"f">>, <<"t">>}

RECURSIVE UrlStrings(_)
UrlStrings(n) ==
    IF n = 0 THEN {<<>>}
    ELSE LET S == UrlStrings(n - 1)
         IN S \cup {s \o p : s \in S, p \in UrlPieces}

TargetUrls == UrlStrings(MaxTargetPieces)
RootUrls == UrlStrings(MaxRootPieces)

InitUrl ==
    /\ phase = "start"
    /\ target_url \in TargetUrls
    /\ root_url \in RootUrls
    /\ access_url = NoValue
    /\ again_url = NoValue
    /\ web_page = <<>>
    /\ access_tag = NONE
    /\ checker = NoValue
    /\ result = NoValue
    /\ NoNet
    /\ NoFactory

\* access_url = check_and_correct_url(target_url, root_url)
Resolve ==
    /\ phase = "start"
    /\ access_url' = check_and_correct_url(target_url, root_url)
    /\ phase' = "resolved"
    /\ UNCHANGED <<target_url, root_url, again_url, web_page, access_tag, checker, result,
                 netVars, factoryVars>>

\* the resolver's own output resolved against the same root
ResolveAgain ==
    /\ phase = "resolved"
    /\ again_url' = check_and_correct_url(access_url, root_url)
    /\ phase' = "again"
    /\ UNCHANGED <<target_url, root_url, access_url, web_page, access_tag, checker, result,
                 netVars, factoryVars>>

NextUrl == Resolve \/ ResolveAgain

SpecUrl == InitUrl /\ [][NextUrl]_vars

-----------------------------------------------------------------------------
(* The claims about check_and_correct_url.                                 *)

\* the inputs as the resolver compares them
StrippedTarget == StripChars(target_url, {SLASH})
StrippedRoot == StripChars(root_url, {SLASH})

\* the index of the first "/" of s, Len(s) + 1 when it has none
FirstSlash(s) ==
    IF \E i \in 1..Len(s) : s[i] = SLASH
    THEN CHOOSE i \in 1..Len(s) : s[i] = SLASH /\ \A j \in 1..(i - 1) : s[j] # SLASH
    ELSE Len(s) + 1

\* the index of the last "/" of s, 0 when it has none
LastSlash(s) ==
    IF \E i \in 1..Len(s) : s[i] = SLASH
    THEN CHOOSE i \in 1..Len(s) : s[i] = SLASH /\ \A j \in (i + 1)..Len(s) : s[j] # SLASH
    ELSE 0

FirstSegment(s) == SubSeq(s, 1, FirstSlash(s) - 1)
AfterFirstSegment(s) == SubSeq(s, FirstSlash(s) + 1, Len(s))
LastSegment(s) == SubSeq(s, LastSlash(s) + 1, Len(s))
BeforeLastSegment(s) == SubSeq(s, 1, LastSlash(s) - 1)

HasTrailingSlash(s) == s # <<>> /\ s[Len(s)] = SLASH

\* C2 as stated: a candidate that starts with "http" is returned unchanged,
\* character for character, whatever the root is.
C2_ReturnedUnchanged ==
    (phase = "resolved" /\ StartsWith(target_url, HTTP)) => access_url = target_url

\* C2 as amended: a candidate that starts with "http" is returned with its
\* trailing slashes removed and otherwise unchanged, whatever the root is; it
\* is returned character for character when it has no trailing slash.
C2_ReturnedStripped ==
    (phase = "resolved" /\ StartsWith(target_url, HTTP)) =>
        /\ \E k \in 0..Len(target_url) :
              /\ access_url = SubSeq(target_url, 1, Len(target_url) - k)
              /\ \A i \in (Len(target_url) - k + 1)..Len(target_url) :
                    target_url[i] = SLASH
        /\ ~HasTrailingSlash(access_url)
        /\ (~HasTrailingSlash(target_url) => access_url = target_url)

C2_Witness ==
    /\ phase = "resolved"
    /\ StartsWith(target_url, HTTP)
    /\ HasTrailingSlash(target_url)
    /\ StrippedRoot # <<>>
    /\ access_url # target_url

\* C3: for a candidate that, stripped of slashes, does not start with "http":
\* when its first path segment equals the last path segment of the stripped
\* root the result is root + "/" + the remaining segments of the candidate,
\* otherwise it is root + "/" + candidate.
C3_OverlapOrConcatenate ==
    (phase = "resolved" /\ ~StartsWith(StrippedTarget, HTTP)) =>
        access_url =
            IF FirstSegment(StrippedTarget) = LastSegment(StrippedRoot)
            THEN StrippedRoot \o <<SLASH>> \o AfterFirstSegment(StrippedTarget)
            ELSE StrippedRoot \o <<SLASH>> \o StrippedTarget

C3_Witness ==
    /\ phase = "resolved"
    /\ ~StartsWith(StrippedTarget, HTTP)
    /\ LastSlash(StrippedRoot) > 0
    /\ FirstSlash(StrippedTarget) <= Len(StrippedTarget)
    /\ FirstSegment(StrippedTarget) # <<>>
    /\ FirstSegment(StrippedTarget) = LastSegment(StrippedRoot)
    /\ access_url = StrippedRoot \o <<SLASH>> \o AfterFirstSegment(StrippedTarget)

\* the candidate is T + "/" + rest, T the last path segment of the root
TargetIsTailAndRest ==
    LET T == LastSegment(StrippedRoot)
    IN  /\ Len(target_url) >= Len(T) + 1
        /\ SubSeq(target_url, 1, Len(T) + 1) = T \o <<SLASH>>

RestOfTarget ==
    SubSeq(target_url, Len(LastSegment(StrippedRoot)) + 2, Len(target_url))

\* C4 as stated: for a root whose last path segment is T,
\* check_and_correct_url(T + "/" + rest, root) is the root with its last
\* segment removed + "/" + rest (stated here for a T and a rest that are not
\* empty, the rest without trailing slash).
C4_RootWithoutTail ==
    (/\ phase = "resolved"
     /\ TargetIsTailAndRest
     /\ LastSegment(StrippedRoot) # <<>>
     /\ RestOfTarget # <<>>
     /\ ~HasTrailingSlash(RestOfTarget)) =>
        access_url = BeforeLastSegment(StrippedRoot) \o <<SLASH>> \o RestOfTarget

\* C4 as amended: for a root whose last path segment T is not empty and does
\* not start with "http", check_and_correct_url(T + "/" + rest, root) is the
\* whole root (stripped of slashes, T kept once) + "/" + rest without its
\* trailing slashes.
C4_RootKeepsTail ==
    (/\ phase = "resolved"
     /\ TargetIsTailAndRest
     /\ LastSegment(StrippedRoot) # <<>>
     /\ ~StartsWith(LastSegment(StrippedRoot), HTTP)) =>
        access_url = StrippedRoot \o <<SLASH>> \o RStrip(RestOfTarget, {SLASH})

C4_Witness ==
    /\ phase = "resolved"
    /\ TargetIsTailAndRest
    /\ LastSegment(StrippedRoot) # <<>>
    /\ ~StartsWith(LastSegment(StrippedRoot), HTTP)
    /\ LastSlash(StrippedRoot) > 0
    /\ FirstSegment(StrippedRoot) # LastSegment(StrippedRoot)
    /\ RestOfTarget # <<>>
    /\ access_url = StrippedRoot \o <<SLASH>> \o RestOfTarget

\* C5 as stated: resolving the resolver's output against the same root gives
\* the same URL, for every candidate and every root.
C5_Idempotent ==
    phase = "again" => again_url = access_url

\* C5 as amended: resolving the resolver's output against the same root gives
\* the same URL whenever the root, stripped of slashes, starts with "http" and
\* the first result does not end with "/".
C5_IdempotentAbsoluteRoot ==
    (/\ phase = "again"
     /\ StartsWith(StrippedRoot, HTTP)
     /\ ~HasTrailingSlash(access_url)) =>
        again_url = access_url

C5_Witness ==
    /\ phase = "again"
    /\ StartsWith(StrippedRoot, HTTP)
    /\ ~StartsWith(StrippedTarget, HTTP)
    /\ StrippedTarget # <<>>
    /\ FirstSegment(StrippedTarget) = LastSegment(StrippedRoot)
    /\ ~HasTrailingSlash(access_url)
    /\ again_url = access_url

-----------------------------------------------------------------------------
(* Parsed documents (bs4.BeautifulSoup, html.parser).                      *)
(*                                                                         *)
(* A document is the sequence of its nodes in document order.  A node is a *)
(* tag, a text node (NavigableString) or a doctype; parent is the index of *)
(* its parent, DOCUMENT for a top-level node.  The BeautifulSoup object    *)
(* itself is DOCUMENT: its name is "[document]" and its parent is None.    *)

PyNone == "None"      \* the name of a NavigableString

Tag(name, parent) ==
    [kind |-> "tag", name |-> name, parent |-> parent,
     hasHref |-> FALSE, href |-> <<>>, hasLang |-> FALSE, lang |-> "", string |-> <<>>]

Anchor(href, parent) == [Tag("a", parent) EXCEPT !.hasHref = TRUE, !.href = href]

HtmlLang(lang, parent) == [Tag("html", parent) EXCEPT !.hasLang = TRUE, !.lang = lang]

Text(string, parent) ==
    [kind |-> "text", name |-> PyNone, parent |-> parent,
     hasHref |-> FALSE, href |-> <<>>, hasLang |-> FALSE, lang |-> "", string |-> string]

Doctype(string, parent) ==
    [kind |-> "doctype", name |-> PyNone, parent |-> parent,
     hasHref |-> FALSE, href |-> <<>>, hasLang |-> FALSE, lang |-> "", string |-> string]

\* the elements of a set of indices, in document order
Ordered(S) ==
    [k \in 1..Cardinality(S) |-> CHOOSE x \in S : Cardinality({y \in S : y < x}) = k - 1]

\* element.name and element.parent, of a node or of the BeautifulSoup object
NameOf(doc, i) == IF i = DOCUMENT THEN "[document]" ELSE doc[i].name
ParentOf(doc, i) == IF i = DOCUMENT THEN NONE ELSE doc[i].parent

\* bool(element): None and the empty string are false, a tag is true
Truthy(doc, i) ==
    /\ i # NONE
    /\ (i # DOCUMENT /\ doc[i].kind # "tag") => doc[i].string # <<>>

\* web_page.find_all(name)
find_all(doc, name) ==
    Ordered({i \in DOMAIN doc : doc[i].kind = "tag" /\ doc[i].name = name})

\* web_page.contents: the top-level nodes
contents(doc) == Ordered({i \in DOMAIN doc : doc[i].parent = DOCUMENT})

RECURSIVE parents(_, _)
\* list(tag.parents): the ancestors of a node, the BeautifulSoup object last
parents(doc, i) ==
    IF ParentOf(doc, i) = NONE THEN <<>>
    ELSE <<ParentOf(doc, i)>> \o parents(doc, ParentOf(doc, i))

-----------------------------------------------------------------------------
(* The text of text nodes: sequences of tokens.                            *)

SP == " "
NBSP == "nbsp"                      \* "\xa0"
COLON == ":"
Whitespace == {SP, NBSP}
mentions == {"non", "partiellement", "totalement"}

\* re.IGNORECASE: the lower-case form of a token
Lower(tok) ==
    CASE tok = "ACCESSIBILITE" -> "accessibilite"
      [] tok = "Accessibilite" -> "accessibilite"
      [] tok = "NON" -> "non"
      [] tok = "Mentions" -> "mentions"
      [] OTHER -> tok

\* ACCESS_PATTERN matches at position p of a text:
\* "Accessibilité[ \xa0]:[ \xa0](non|partiellement|totalement)[ \xa0]conforme"
AccessPatternAt(t, p) ==
    /\ p + 6 <= Len(t)
    /\ Lower(t[p]) = "accessibilite"
    /\ t[p + 1] \in Whitespace
    /\ t[p + 2] = COLON
    /\ t[p + 3] \in Whitespace
    /\ Lower(t[p + 4]) \in mentions
    /\ t[p + 5] \in Whitespace
    /\ Lower(t[p + 6]) = "conforme"

\* ACCESS_PATTERN.search(text)
ACCESS_PATTERN(t) == \E p \in 1..Len(t) : AccessPatternAt(t, p)

\* the text "Déclaration d'accessibilité"
DECLARATION == <<"Declaration", SP, "d'accessibilite">>

\* web_page.find_all(string = ACCESS_PATTERN)
find_all_access(doc) ==
    Ordered({i \in DOMAIN doc : doc[i].kind = "text" /\ ACCESS_PATTERN(doc[i].string)})

\* web_page.find_all(string = "Déclaration d'accessibilité")
find_all_declaration(doc) ==
    Ordered({i \in DOMAIN doc : doc[i].kind = "text" /\ doc[i].string = DECLARATION})

-----------------------------------------------------------------------------
(* What a call does: it returns a value or raises.                         *)

FAIL == "echec"          \* "échec"
PRESENT == "present"     \* "présent"

Return(type, val) == [outcome |-> "return", type |-> type, val |-> val]
Raise(error) == [outcome |-> "raise", type |-> error, val |-> <<>>]
ReturnNone == Return("None", <<>>)
ReturnFail == Return("str", FAIL)

IsFail(r) == r.outcome = "return" /\ r.type = "str" /\ r.val = FAIL
IsNone(r) == r.outcome = "return" /\ r.type = "None"
IsUrl(r) == r.outcome = "return" /\ r.type = "url"
Raises(r) == r.outcome = "raise"

-----------------------------------------------------------------------------
(* wasc/utils.py: find_link                                                *)

RECURSIVE WalkUp(_, _)
\* while access_tag and access_tag.name != "a" and access_tag.name != "html":
\*     access_tag = access_tag.parent
WalkUp(doc, i) ==
    IF Truthy(doc, i) /\ NameOf(doc, i) # "a" /\ NameOf(doc, i) # "html"
    THEN WalkUp(doc, ParentOf(doc, i))
    ELSE i

\* access_tag.attrs["href"], checked and corrected; a KeyError is passed over
\* and None is returned; None has no attrs, nor has a NavigableString
HrefOf(doc, i, root) ==
    IF i = NONE THEN Raise("AttributeError")
    ELSE IF i # DOCUMENT /\ doc[i].kind # "tag" THEN Raise("AttributeError")
    ELSE IF i = DOCUMENT \/ ~doc[i].hasHref THEN ReturnNone
    ELSE Return("url", check_and_correct_url(doc[i].href, root))

find_link(doc, tag, root) == HrefOf(doc, WalkUp(doc, tag), root)

-----------------------------------------------------------------------------
(* wasc/checkers.py                                                        *)

ACCESSIBILITE == <<"a", "c", "c", "e", "s", "s", "i", "b", "i", "l", "i", "t", "e">>
ACCESSIBILITY == <<"a", "c", "c", "e", "s", "s", "i", "b", "i", "l", "i", "t", "y">>
CONTACT == <<"c", "o", "n", "t", "a", "c", "t">>
ECRIRE == <<"e", "c", "r", "i", "r", "e">>

\* re.search of a literal in a string
Contains(s, sub) ==
    \E i \in 1..(Len(s) - Len(sub) + 1) : SubSeq(s, i, i + Len(sub) - 1) = sub

\* len(web_page.find_all(name="head"))
HeadNbChecker(doc, root) == Return("int", Len(find_all(doc, "head")))

\* HeadLvlChecker.execute counting the BeautifulSoup object as a level
HeadLvlChecker_with_document(doc, root) ==
    LET head_tag == find_all(doc, "head")
    IN  Return("list", [k \in 1..Len(head_tag) |-> Len(parents(doc, head_tag[k]))])

\* [len(list(tag.parents)) - 1 for tag in head_tag] if head_tag else []
HeadLvlChecker(doc, root) ==
    LET head_tag == find_all(doc, "head")
    IN  Return("list", [k \in 1..Len(head_tag) |-> Len(parents(doc, head_tag[k])) - 1])

\* mention[0].split(":")[1].strip() of the first text that matches, else FAIL
AccessChecker(doc, root) ==
    LET mention == find_all_access(doc)
    IN  IF mention # <<>>
        THEN Return("text", StripChars(Split(doc[mention[1]].string, COLON)[2], Whitespace))
        ELSE ReturnFail

RECURSIVE AccessLinkTier3(_, _, _, _)
\* for tag in link_tags: the first href that, corrected, ends with
\* "accessibility" or "accessibilite"; a tag without href is passed over
AccessLinkTier3(doc, root, link_tags, k) ==
    IF k > Len(link_tags) THEN ReturnFail
    ELSE LET tag == doc[link_tags[k]]
             current_link == check_and_correct_url(tag.href, root)
         IN  IF tag.hasHref /\ (EndsWith(current_link, ACCESSIBILITY)
                                 \/ EndsWith(current_link, ACCESSIBILITE))
             THEN Return("url", current_link)
             ELSE AccessLinkTier3(doc, root, link_tags, k + 1)

\* 2 - the text "Déclaration d'accessibilité", then 3
AccessLinkTier2(doc, root) ==
    LET found == find_all_declaration(doc)
        link == find_link(doc, found[1], root)
    IN  IF found # <<>> /\ Raises(link) THEN link
        ELSE IF found # <<>> /\ IsUrl(link) /\ link.val # <<>> THEN link
        ELSE AccessLinkTier3(doc, root, find_all(doc, "a"), 1)

\* AccessLinkChecker.execute without its first tier
AccessLinkChecker_no_mention(doc, root) == AccessLinkTier2(doc, root)

\* 1 - the link in the mention, then 2
AccessLinkChecker(doc, root) ==
    LET found == find_all_access(doc)
        link == find_link(doc, found[1], root)
    IN  IF found # <<>> /\ Raises(link) THEN link
        ELSE IF found # <<>> /\ IsUrl(link) /\ link.val # <<>> THEN link
        ELSE AccessLinkTier2(doc, root)

\* web_page.html: the first html tag of the document, None when there is none;
\* its lang, FAIL on the KeyError, and nothing returned when there is no tag
LangChecker(doc, root) ==
    LET html == find_all(doc, "html")
    IN  IF html # <<>>
        THEN IF doc[html[1]].hasLang THEN Return("str", doc[html[1]].lang) ELSE ReturnFail
        ELSE ReturnNone

RECURSIVE DoctypeLoop(_, _, _, _, _, _)
\* for item in web_page.contents, current_pos = k - 1
DoctypeLoop(doc, items, k, doctype_pos, html_pos, doctype_found) ==
    IF k > Len(items)
    THEN IF doctype_found /\ doctype_pos < html_pos THEN Return("str", "html") ELSE ReturnFail
    ELSE LET item == doc[items[k]]
         IN  IF item.kind = "doctype"
             THEN IF item.string # <<"html">> THEN ReturnFail
                  ELSE DoctypeLoop(doc, items, k + 1, k - 1, html_pos, TRUE)
             ELSE IF item.kind = "tag" /\ item.name = "html"
             THEN DoctypeLoop(doc, items, k + 1, doctype_pos, k - 1, doctype_found)
             ELSE DoctypeLoop(doc, items, k + 1, doctype_pos, html_pos, doctype_found)

\* doctype_pos = 1, html_pos = 0, doctype_found = False
DoctypeChecker(doc, root) == DoctypeLoop(doc, contents(doc), 1, 1, 0, FALSE)

\* HeaderChecker.execute accepting several header elements
HeaderChecker_at_least_one(doc, root) ==
    IF Len(find_all(doc, "header")) >= 1 THEN Return("str", PRESENT) ELSE ReturnFail

HeaderChecker(doc, root) ==
    IF Len(find_all(doc, "header")) = 1 THEN Return("str", PRESENT) ELSE ReturnFail

FooterChecker(doc, root) ==
    IF Len(find_all(doc, "footer")) = 1 THEN Return("str", PRESENT) ELSE ReturnFail

\* web_page.find_all(href=re.compile("(contact|ecrire)")), the first one corrected
ContactLinkChecker(doc, root) ==
    LET link_tags == Ordered({i \in DOMAIN doc :
                                 /\ doc[i].kind = "tag"
                                 /\ doc[i].hasHref
                                 /\ (Contains(doc[i].href, CONTACT) \/ Contains(doc[i].href, ECRIRE))})
    IN  IF link_tags # <<>>
        THEN Return("url", check_and_correct_url(doc[link_tags[1]].href, root))
        ELSE ReturnFail

-----------------------------------------------------------------------------
(* The documents and root URLs the checkers are run on.                    *)

MaxTopItems == 3      \* top-level nodes of a document of TopDocs
MaxBlocks == 2        \* blocks of a document of LinkDocs
MaxStructBlocks == 2  \* blocks of a document of StructDocs

\* a block: a small subtree appended under the node par of a document that
\* has base nodes already
BNode(node) == [b |-> "node", node |-> node, h |-> <<>>]
BLink(h, t) == [b |-> "link", node |-> Text(t, 0), h |-> h]
BLinkNoHref(t) == [b |-> "nohref", node |-> Text(t, 0), h |-> <<>>]
BNestedLink(h, t) == [b |-> "nested", node |-> Text(t, 0), h |-> h]
BDiv(node) == [b |-> "div", node |-> node, h |-> <<>>]

BlockNodes(blk, par, base) ==
    CASE blk.b = "node" -> <<[blk.node EXCEPT !.parent = par]>>
      [] blk.b = "link" -> <<Anchor(blk.h, par), [blk.node EXCEPT !.parent = base + 1]>>
      [] blk.b = "nohref" -> <<Tag("a", par), [blk.node EXCEPT !.parent = base + 1]>>
      [] blk.b = "nested" -> <<Anchor(blk.h, par), Tag("span", base + 1),
                               [blk.node EXCEPT !.parent = base + 2]>>
      [] blk.b = "div" -> <<Tag("div", par), [blk.node EXCEPT !.parent = base + 1]>>

RECURSIVE Build(_, _, _)
\* the document doc with the blocks appended under par, in order
Build(doc, par, blocks) ==
    IF blocks = <<>> THEN doc
    ELSE Build(doc \o BlockNodes(Head(blocks), par, Len(doc)), par, Tail(blocks))

RECURSIVE SeqsUpTo(_, _)
\* the sequences of at most n elements of S
SeqsUpTo(S, n) ==
    IF n = 0 THEN {<<>>}
    ELSE LET R == SeqsUpTo(S, n - 1)
         IN R \cup {Append(q, x) : q \in R, x \in S}

\* with or without an html element around the blocks
Wrapped(blocks) == Build(<<Tag("html", DOCUMENT)>>, 1, blocks)
Bare(blocks) == Build(<<>>, DOCUMENT, blocks)

\* texts
Statement(acc, sp, level) == <<acc, sp, COLON, sp, level, sp, "conforme">>
MENTION == Statement("Accessibilite", SP, "non")
OTHERTEXT == <<"Accessibilite">>
CoreTexts ==
    {Statement("Accessibilite", SP, level) : level \in mentions}
    \cup {Statement("Accessibilite", NBSP, "non"),
          Statement("ACCESSIBILITE", SP, "NON"),
          <<"Accessibilite", SP, COLON, SP, "conforme", SP, "partiellement">>,
          <<"Accessibilite", COLON, SP, "non", SP, "conforme">>}
Prefixes == {<<>>, <<"Info", SP>>, <<"Info", SP, COLON, SP>>}
Suffixes == {<<>>, <<SP, "Info">>, <<SP, COLON, SP, "Info">>}
MentionTexts == {p \o c \o x : p \in Prefixes, c \in CoreTexts, x \in Suffixes}

\* hrefs: "/accessibilite/", "/f", "/contact"
Hrefs == {<<SLASH>> \o ACCESSIBILITE \o <<SLASH>>, <<SLASH, "f">>, <<SLASH>> \o CONTACT}

\* root URLs: "http://e" and "http://e/f/"
Roots == {HTTP \o <<":", SLASH, SLASH, "e">>,
          HTTP \o <<":", SLASH, SLASH, "e", SLASH, "f", SLASH>>}

\* doctypes, html elements and other nodes at the top level
TopBlocks ==
    {BNode(Doctype(<<"html">>, 0)), BNode(Doctype(<<"nothtml">>, 0)),
     BNode(Tag("html", 0)), BNode(HtmlLang("fr", 0)),
     BNode(Tag("div", 0)), BNode(Text(OTHERTEXT, 0))}
TopDocs == {Bare(bs) : bs \in SeqsUpTo(TopBlocks, MaxTopItems)}

\* texts in and out of links, with or without an html element
LinkTexts == {MENTION, DECLARATION, OTHERTEXT}
LinkBlocks ==
    {BNode(Text(t, 0)) : t \in LinkTexts}
    \cup {BLink(h, t) : h \in Hrefs, t \in LinkTexts}
    \cup {BLinkNoHref(t) : t \in LinkTexts}
    \cup {BNestedLink(h, MENTION) : h \in {<<SLASH, "f">>}}
LinkDocs ==
    LET S == SeqsUpTo(LinkBlocks, MaxBlocks)
    IN {Wrapped(bs) : bs \in S} \cup {Bare(bs) : bs \in S}

\* the texts of the accessibility mention, in an html element
TextDocs ==
    {Wrapped(<<BNode(Text(t, 0))>>) : t \in MentionTexts}
    \cup {Wrapped(<<BNode(Text(t1, 0)), BNode(Text(t2, 0))>>) : t1, t2 \in CoreTexts}

\* head, header and footer elements at several depths
StructBlocks ==
    {BNode(Tag("head", 0)), BNode(Tag("header", 0)), BNode(Tag("footer", 0)),
     BDiv(Tag("head", 0))}
StructDocs ==
    LET S == SeqsUpTo(StructBlocks, MaxStructBlocks)
    IN {Wrapped(bs) : bs \in S} \cup {Bare(bs) : bs \in S}

MaxContactBlocks == 2 \* blocks of a document of ContactDocs

\* an element other than an anchor that has an href, as <link href="...">
HrefTag(name, href, parent) == [Tag(name, parent) EXCEPT !.hasHref = TRUE, !.href = href]

\* elements with an href "/contact", "/ecrire" or "/f"
HREF_CONTACT == <<SLASH>> \o CONTACT
HREF_ECRIRE == <<SLASH>> \o ECRIRE
ContactBlocks ==
    {BNode(HrefTag("link", HREF_CONTACT, 0)),
     BLink(HREF_ECRIRE, OTHERTEXT), BLink(<<SLASH, "f">>, OTHERTEXT)}
ContactDocs ==
    LET S == SeqsUpTo(ContactBlocks, MaxContactBlocks)
    IN {Wrapped(bs) : bs \in S} \cup {Bare(bs) : bs \in S}

Documents == TopDocs \cup LinkDocs \cup TextDocs \cup StructDocs \cup ContactDocs

-----------------------------------------------------------------------------
(* The checkers and the link locator run on a parsed document.             *)

InitDoc ==
    /\ phase = "parsed"
    /\ web_page \in Documents
    /\ root_url \in Roots
    /\ target_url = <<>>
    /\ access_url = NoValue
    /\ again_url = NoValue
    /\ access_tag = NONE
    /\ checker = NoValue
    /\ result = NoValue
    /\ NoNet
    /\ NoFactory

\* checker.execute(web_page, root_url)
Execute(name, r) ==
    /\ phase \in {"parsed", "executed"}
    /\ checker' = name
    /\ result' = r
    /\ access_tag' = NONE
    /\ phase' = "executed"
    /\ UNCHANGED <<target_url, root_url, access_url, again_url, web_page, netVars, factoryVars>>

ExecHeadNbChecker == Execute("HeadNbChecker", HeadNbChecker(web_page, root_url))
ExecHeadLvlChecker == Execute("HeadLvlChecker", HeadLvlChecker(web_page, root_url))
ExecAccessChecker == Execute("AccessChecker", AccessChecker(web_page, root_url))
ExecAccessLinkChecker == Execute("AccessLinkChecker", AccessLinkChecker(web_page, root_url))
ExecLangChecker == Execute("LangChecker", LangChecker(web_page, root_url))
ExecDoctypeChecker == Execute("DoctypeChecker", DoctypeChecker(web_page, root_url))
ExecHeaderChecker == Execute("HeaderChecker", HeaderChecker(web_page, root_url))
ExecFooterChecker == Execute("FooterChecker", FooterChecker(web_page, root_url))
ExecContactLinkChecker == Execute("ContactLinkChecker", ContactLinkChecker(web_page, root_url))

\* the text nodes a checker hands to find_link
MatchedTexts(doc) ==
    {i \in DOMAIN doc :
        /\ doc[i].kind = "text"
        /\ (ACCESS_PATTERN(doc[i].string) \/ doc[i].string = DECLARATION)}

\* find_link(access_tag, root_url), started at a matched text node
FindLink ==
    /\ phase \in {"parsed", "executed"}
    /\ \E i \in MatchedTexts(web_page) :
          /\ access_tag' = i
          /\ result' = find_link(web_page, i, root_url)
    /\ checker' = "find_link"
    /\ phase' = "executed"
    /\ UNCHANGED <<target_url, root_url, access_url, again_url, web_page, netVars, factoryVars>>

NextDoc ==
    \/ ExecHeadNbChecker
    \/ ExecHeadLvlChecker
    \/ ExecAccessChecker
    \/ ExecAccessLinkChecker
    \/ ExecLangChecker
    \/ ExecDoctypeChecker
    \/ ExecHeaderChecker
    \/ ExecFooterChecker
    \/ ExecContactLinkChecker
    \/ FindLink

SpecDoc == InitDoc /\ [][NextDoc]_vars

-----------------------------------------------------------------------------
(* The claims about the link locator and the checkers.                     *)

\* the checkers of checker_factory that do no network access
LocalCheckers ==
    {"HeadNbChecker", "HeadLvlChecker", "AccessChecker", "AccessLinkChecker",
     "LangChecker", "DoctypeChecker", "HeaderChecker", "FooterChecker",
     "ContactLinkChecker"}

\* C1: whatever the document (with or without html element, head, anchors)
\* and the root URL, execute returns normally, with a heuristic value or the
\* failure value of the checker: it never raises and never returns None.
C1_ExecuteReturnsValue ==
    (phase = "executed" /\ checker \in LocalCheckers) =>
        (result.outcome = "return" /\ result.type # "None")

\* the nearest enclosing "a" element of a node, NONE when it has none
NearestAnchor(doc, i) ==
    LET up == parents(doc, i)
        anchors == {k \in 1..Len(up) : NameOf(doc, up[k]) = "a"}
    IN  IF anchors = {} THEN NONE
        ELSE up[CHOOSE k \in anchors : \A j \in anchors : k <= j]

\* the resolved href of the nearest enclosing anchor of a text node, absent
\* when there is no such anchor or when it has no href
EnclosingLink(doc, i, root) ==
    LET a == NearestAnchor(doc, i)
    IN  IF a # NONE /\ doc[a].hasHref
        THEN Return("url", check_and_correct_url(doc[a].href, root))
        ELSE ReturnNone

\* C6: started at a matched text node, find_link returns the resolved href of
\* the nearest enclosing "a" element when that element has an href, and
\* returns None, without raising, when the root is reached with no anchor
\* found or when the anchor has no href.
C6_FindLinkNeverRaises ==
    (phase = "executed" /\ checker = "find_link") =>
        result = EnclosingLink(web_page, access_tag, root_url)

\* the first anchor in document order whose resolved href ends with
\* "accessibilite" or "accessibility"
AccessibilityAnchors(doc, root) ==
    {i \in DOMAIN doc :
        /\ doc[i].kind = "tag" /\ doc[i].name = "a" /\ doc[i].hasHref
        /\ LET link == check_and_correct_url(doc[i].href, root)
           IN EndsWith(link, ACCESSIBILITE) \/ EndsWith(link, ACCESSIBILITY)}

\* what the three tiers yield, in order
ThreeTiers(doc, root) ==
    LET mention == find_all_access(doc)
        declaration == find_all_declaration(doc)
        anchors == Ordered(AccessibilityAnchors(doc, root))
    IN  IF mention # <<>> /\ IsUrl(EnclosingLink(doc, mention[1], root))
        THEN EnclosingLink(doc, mention[1], root)
        ELSE IF declaration # <<>> /\ IsUrl(EnclosingLink(doc, declaration[1], root))
        THEN EnclosingLink(doc, declaration[1], root)
        ELSE IF anchors # <<>>
        THEN Return("url", check_and_correct_url(doc[anchors[1]].href, root))
        ELSE ReturnFail

\* C7: AccessLinkChecker returns the result of the first tier that yields a
\* link: (1) the mention text is enclosed in a link, (2) the text
\* "Déclaration d'accessibilité" is enclosed in a link, (3) the first anchor
\* whose resolved href ends with "accessibilite" or "accessibility"; it
\* returns FAIL iff no tier yields a link.
C7_ThreeTiersInOrder ==
    (phase = "executed" /\ checker = "AccessLinkChecker") =>
        /\ result.outcome = "return"
        /\ result.type = ThreeTiers(web_page, root_url).type
        /\ result.val = ThreeTiers(web_page, root_url).val

\* the position of the leftmost match of ACCESS_PATTERN in a text
MatchStart(t) ==
    CHOOSE p \in 1..Len(t) : AccessPatternAt(t, p) /\ \A q \in 1..(p - 1) : ~AccessPatternAt(t, q)

\* C8: AccessChecker returns FAIL when no text node matches the mention
\* pattern; when a text node matches, what it returns starts with the part of
\* the statement after the colon, trimmed: the level, a space, "conforme".
C8_PartAfterColon ==
    (phase = "executed" /\ checker = "AccessChecker") =>
        LET mention == find_all_access(web_page)
            t == web_page[mention[1]].string
            p == MatchStart(t)
        IN  IF mention = <<>> THEN IsFail(result)
            ELSE /\ result.outcome = "return"
                 /\ result.type = "text"
                 /\ Len(result.val) >= 3
                 /\ SubSeq(result.val, 1, 3) = SubSeq(t, p + 4, p + 6)

\* the position among the top-level nodes of the html element, 0 when none
HtmlPosition(doc) ==
    LET top == contents(doc)
        at == {k \in 1..Len(top) : doc[top[k]].kind = "tag" /\ doc[top[k]].name = "html"}
    IN  IF at = {} THEN 0 ELSE CHOOSE k \in at : \A j \in at : k <= j

\* C9: DoctypeChecker returns "html" if and only if the top-level children
\* contain a doctype whose value is exactly "html" and whose position
\* precedes the position of the html element; otherwise it returns FAIL.
C9_DoctypeBeforeHtml ==
    (phase = "executed" /\ checker = "DoctypeChecker") =>
        LET top == contents(web_page)
            valid == \E k \in 1..Len(top) :
                        /\ web_page[top[k]].kind = "doctype"
                        /\ web_page[top[k]].string = <<"html">>
                        /\ HtmlPosition(web_page) # 0
                        /\ k < HtmlPosition(web_page)
        IN  IF valid THEN result = Return("str", "html") ELSE IsFail(result)

\* C10: LangChecker returns the lang attribute of the root html element when
\* it is present, and FAIL whenever it is not present.
C10_LangOrFail ==
    (phase = "executed" /\ checker = "LangChecker") =>
        LET html == find_all(web_page, "html")
        IN  IF html # <<>> /\ web_page[html[1]].hasLang
            THEN result = Return("str", web_page[html[1]].lang)
            ELSE IsFail(result)

\* the anchors whose href matches "(contact|ecrire)", in document order
ContactAnchors(doc) ==
    Ordered({i \in DOMAIN doc :
                /\ doc[i].kind = "tag" /\ doc[i].name = "a" /\ doc[i].hasHref
                /\ (Contains(doc[i].href, CONTACT) \/ Contains(doc[i].href, ECRIRE))})

\* C14: ContactLinkChecker returns the resolved href of the first anchor
\* element, in document order, whose href matches "(contact|ecrire)", and
\* FAIL when no anchor has such an href, anchors without href included.
C14_FirstContactAnchor ==
    (phase = "executed" /\ checker = "ContactLinkChecker") =>
        LET anchors == ContactAnchors(web_page)
        IN  IF anchors # <<>>
            THEN result = Return("url", check_and_correct_url(web_page[anchors[1]].href,
                                                              root_url))
            ELSE IsFail(result)

\* the elements of a document that have a given name
Elements(doc, name) == {i \in DOMAIN doc : doc[i].kind = "tag" /\ doc[i].name = name}

\* C15: HeaderChecker (FooterChecker) returns PRESENT iff the document has
\* exactly one header (footer) element; with none or with two or more it
\* returns FAIL.
C15_ExactlyOne ==
    /\ (phase = "executed" /\ checker = "HeaderChecker") =>
          IF Cardinality(Elements(web_page, "header")) = 1
          THEN result = Return("str", PRESENT)
          ELSE IsFail(result)
    /\ (phase = "executed" /\ checker = "FooterChecker") =>
          IF Cardinality(Elements(web_page, "footer")) = 1
          THEN result = Return("str", PRESENT)
          ELSE IsFail(result)

C15_Witness ==
    /\ phase = "executed"
    /\ checker = "HeaderChecker"
    /\ Cardinality(Elements(web_page, "header")) >= 2
    /\ IsFail(result)

RECURSIVE Encloses(_, _, _)
\* the element a encloses the node i
Encloses(doc, a, i) ==
    /\ i \in DOMAIN doc
    /\ doc[i].parent \in DOMAIN doc
    /\ (doc[i].parent = a \/ Encloses(doc, a, doc[i].parent))

\* the number of elements that enclose a node
Depth(doc, i) == Cardinality({a \in DOMAIN doc : Encloses(doc, a, i)})

\* C16: HeadNbChecker returns the number of head elements, 0 when there is
\* none; HeadLvlChecker returns one depth per head element in document order,
\* the empty list when there is none, so that the length of the list is that
\* number; a head directly under html has depth 1 and each further enclosing
\* element adds 1.
C16_HeadCountAndDepths ==
    LET heads == Ordered(Elements(web_page, "head"))
    IN  /\ (phase = "executed" /\ checker = "HeadNbChecker") =>
              result = Return("int", Cardinality(Elements(web_page, "head")))
        /\ (phase = "executed" /\ checker = "HeadLvlChecker") =>
              /\ result.outcome = "return"
              /\ result.type = "list"
              /\ Len(result.val) = Cardinality(Elements(web_page, "head"))
              /\ \A k \in 1..Len(heads) : result.val[k] = Depth(web_page, heads[k])

C16_Witness ==
    /\ phase = "executed"
    /\ checker = "HeadLvlChecker"
    /\ result.outcome = "return"
    /\ result.type = "list"
    /\ result.val = <<1, 2>>
    /\ web_page[1].name = "html"

-----------------------------------------------------------------------------
(* wasc/checkers.py: the checkers that fetch a second page.                *)
(* fetch_url is the network: it raises, returns None, or returns a         *)
(* response with a status and the data of a page.                          *)

OK == 200

FetchRaises == [kind |-> "raise", status |-> 0, data |-> <<>>]
FetchNone == [kind |-> "none", status |-> 0, data |-> <<>>]
Response(status, data) == [kind |-> "response", status |-> status, data |-> data]
\* a response with status 200 whose data makes the parser raise
Unparsable == [kind |-> "unparsable", status |-> OK, data |-> <<>>]

\* what an execute did and the URLs it handed to fetch_url
Done(r, urls) == [result |-> r, fetched |-> urls]

\* "mentions-legales"
MENTIONS_LEGALES ==
    <<"m", "e", "n", "t", "i", "o", "n", "s", "-", "l", "e", "g", "a", "l", "e", "s">>

\* re.compile("Mentions* l[eé]gales*", re.IGNORECASE), on the tokens of a
\* text; "le'gales" stands for the spelling with an acute accent
LegalFirst == {"Mentions", "mentions", "MENTIONS", "Mention", "mention"}
LegalSecond == {"legales", "le'gales", "LEGALES", "legale", "le'gale"}
LegalPatternAt(t, p) ==
    /\ p + 2 <= Len(t)
    /\ t[p] \in LegalFirst
    /\ t[p + 1] = SP
    /\ t[p + 2] \in LegalSecond
LEGAL_PATTERN(t) == \E p \in 1..Len(t) : LegalPatternAt(t, p)

\* web_page.find_all(string = motif)
find_all_legal(doc) ==
    Ordered({i \in DOMAIN doc : doc[i].kind = "text" /\ LEGAL_PATTERN(doc[i].string)})

\* the probe of root_url + "/mentions-legales"
LegalProbe(root, resp) ==
    LET legal_link == check_and_correct_url(MENTIONS_LEGALES, root)
    IN  Done(IF resp.kind = "response" /\ resp.status = OK
             THEN Return("url", legal_link)
             ELSE ReturnFail,
             <<legal_link>>)

RECURSIVE LegalLoop(_, _, _, _, _)
\* for tag in legal_tags: walk up to the anchor or to html, take its href
\* unless it is the root URL itself; the probe comes after the loop
LegalLoop(doc, root, legal_tags, k, resp) ==
    IF k > Len(legal_tags) THEN LegalProbe(root, resp)
    ELSE LET link == HrefOf(doc, WalkUp(doc, legal_tags[k]), root)
         IN  IF Raises(link) THEN Done(link, <<>>)
             ELSE IF IsUrl(link) /\ link.val # root THEN Done(link, <<>>)
             ELSE LegalLoop(doc, root, legal_tags, k + 1, resp)

LegalChecker(doc, root, resp) == LegalLoop(doc, root, find_all_legal(doc), 1, resp)

\* the characters of the texts of a linked page; "conformite" stands for the
\* word "conformité", and PERCENT for "%"
PERCENT == "%"
Digits == {"0", "1", "5", "7"}
Separators == {".", ","}

RECURSIVE DigitRun(_)
\* the length of the longest run of digits a string starts with
DigitRun(w) == IF w # <<>> /\ Head(w) \in Digits THEN 1 + DigitRun(Tail(w)) ELSE 0

RECURSIVE FractionParts(_)
\* ([\.\,]\d+)* matches the whole of w
FractionParts(w) ==
    \/ w = <<>>
    \/ /\ Head(w) \in Separators
       /\ DigitRun(Tail(w)) >= 1
       /\ FractionParts(SubSeq(w, 2 + DigitRun(Tail(w)), Len(w)))

\* a group that takes up to four digits before the fraction parts
RateGroup_four_digits(w) ==
    /\ DigitRun(w) \in {1, 2, 3, 4}
    /\ FractionParts(SubSeq(w, DigitRun(w) + 1, Len(w)))

\* (100|(\d{1,2}([\.\,]\d+)*)) matches the whole of w
RateGroup(w) ==
    \/ w = <<"1", "0", "0">>
    \/ /\ DigitRun(w) \in {1, 2}
       /\ FractionParts(SubSeq(w, DigitRun(w) + 1, Len(w)))

RECURSIVE SkipSpaces(_, _)
\* the first position from p on that holds no space
SkipSpaces(t, p) == IF p <= Len(t) /\ t[p] = SP THEN SkipSpaces(t, p + 1) ELSE p

RECURSIVE GroupEnd(_, _)
\* the last position of the run of digits and separators that starts at p
GroupEnd(t, p) ==
    IF p <= Len(t) /\ t[p] \in Digits \cup Separators THEN GroupEnd(t, p + 1) ELSE p - 1

\* \s(100|(\d{1,2}([\.\,]\d+)*))\ *% matches at position p of t
RateAt(t, p) ==
    /\ t[p] \in Whitespace
    /\ RateGroup(SubSeq(t, p + 1, GroupEnd(t, p + 1)))
    /\ SkipSpaces(t, GroupEnd(t, p + 1) + 1) <= Len(t)
    /\ t[SkipSpaces(t, GroupEnd(t, p + 1) + 1)] = PERCENT

\* re.search(...): m[1] of the leftmost match, as a one-element sequence,
\* or the empty sequence when there is no match
RateSearch(t) ==
    LET starts == {p \in 1..Len(t) : RateAt(t, p)}
    IN  IF starts = {} THEN <<>>
        ELSE LET p == CHOOSE q \in starts : \A o \in starts : q <= o
             IN <<SubSeq(t, p + 1, GroupEnd(t, p + 1))>>

RECURSIVE RateLoop(_, _)
\* for tag in percent_tags: if "conformité" in tag: m = re.search(...);
\* if m: return str(m[1]) + "%"
RateLoop(percent_tags, k) ==
    IF k > Len(percent_tags) THEN ReturnFail
    ELSE LET tag == percent_tags[k]
         IN  IF (\E j \in 1..Len(tag) : tag[j] = "conformite") /\ RateSearch(tag) # <<>>
             THEN Return("rate", RateSearch(tag)[1] \o <<PERCENT>>)
             ELSE RateLoop(percent_tags, k + 1)

\* link_page.find_all(string = motif): the texts of the page that hold a "%"
find_all_percent(link_page) ==
    SelectSeq(link_page, LAMBDA t : \E j \in 1..Len(t) : t[j] = PERCENT)

\* AccessRateChecker.execute without the test of link_url against FAIL
AccessRateChecker_always_fetch(doc, root, resp) ==
    LET link_url == AccessLinkChecker(doc, root)
    IN  IF Raises(link_url) THEN Done(link_url, <<>>)
        ELSE IF resp.kind = "response" /\ resp.status = OK
        THEN Done(RateLoop(find_all_percent(resp.data), 1), <<link_url.val>>)
        ELSE Done(ReturnFail, <<link_url.val>>)

\* AccessRateChecker.execute without its try block
AccessRateChecker_no_try(doc, root, resp) ==
    LET link_url == AccessLinkChecker(doc, root)
    IN  IF Raises(link_url) THEN Done(link_url, <<>>)
        ELSE IF IsFail(link_url) THEN Done(ReturnFail, <<>>)
        ELSE IF resp.kind = "raise" THEN Done(Raise("Exception"), <<link_url.val>>)
        ELSE IF resp.kind = "none" THEN Done(Raise("AttributeError"), <<link_url.val>>)
        ELSE IF resp.kind = "unparsable" THEN Done(Raise("Exception"), <<link_url.val>>)
        ELSE IF resp.status = OK
        THEN Done(RateLoop(find_all_percent(resp.data), 1), <<link_url.val>>)
        ELSE Done(ReturnFail, <<link_url.val>>)

\* AccessRateChecker.execute: the link of AccessLinkChecker, fetched; every
\* exception of the fetch and of the parsing is caught and gives FAIL
AccessRateChecker(doc, root, resp) ==
    LET link_url == AccessLinkChecker(doc, root)
    IN  IF Raises(link_url) THEN Done(link_url, <<>>)
        ELSE IF IsFail(link_url) THEN Done(ReturnFail, <<>>)
        ELSE IF resp.kind = "response" /\ resp.status = OK
        THEN Done(RateLoop(find_all_percent(resp.data), 1), <<link_url.val>>)
        ELSE Done(ReturnFail, <<link_url.val>>)

-----------------------------------------------------------------------------
(* The documents, the responses and the runs of the fetching checkers.     *)

MaxNetBlocks == 2     \* blocks of a document of NetDocs

LEGAL == <<"Mentions", SP, "legales">>
LEGAL_LOWER == <<"mention", SP, "le'gale">>
LEGAL_NBSP == <<"Mentions", NBSP, "legales">>

\* hrefs "/f", "/mentions" and "/accessibilite/"
HREF_F == <<SLASH, "f">>
HREF_MENTIONS == <<SLASH, "m", "e", "n", "t", "i", "o", "n", "s">>
HREF_ACCESS == <<SLASH>> \o ACCESSIBILITE \o <<SLASH>>

NetBlocks ==
    {BNode(Text(LEGAL, 0)), BNode(Text(MENTION, 0)),
     BLink(HREF_F, LEGAL), BLink(HREF_MENTIONS, LEGAL), BLinkNoHref(LEGAL),
     BLink(HREF_F, LEGAL_LOWER), BLink(HREF_F, LEGAL_NBSP),
     BLink(HREF_ACCESS, MENTION)}
NetDocs ==
    LET S == SeqsUpTo(NetBlocks, MaxNetBlocks)
    IN {Wrapped(bs) : bs \in S} \cup {Bare(bs) : bs \in S}

\* the texts of a linked page
RATE_100 == <<"Taux", SP, "de", SP, "conformite", SP, "1", "0", "0", PERCENT>>
RateTexts ==
    {RATE_100,
     <<"conformite", SP, "7", "5", ",", "5", SP, PERCENT>>,
     <<"conformite", COLON, "7", "5", PERCENT>>,
     <<"conformite", SP, "1", "0", "0", "0", PERCENT>>,
     <<"conformite", SP, "1", "0", "0", ".", "5", PERCENT>>,
     <<"conformite", NBSP, "7", ".", "5", ",", "1", SP, SP, PERCENT>>,
     <<"Conformite", SP, "7", "5", PERCENT>>,
     <<"remise", SP, "5", PERCENT>>,
     <<"conformite", SP, "totale">>}
Pages == {<<>>} \cup {<<t>> : t \in RateTexts} \cup {<<t, RATE_100>> : t \in RateTexts}

\* what fetch_url can give: to LegalChecker, which reads the status only,
\* and to AccessRateChecker, which parses the data
ProbeResponses == {FetchRaises, FetchNone, Response(404, <<>>), Response(OK, <<>>)}
Responses ==
    {FetchRaises, FetchNone, Unparsable, Response(404, <<>>)} \cup {Response(OK, p) : p \in Pages}

InitNet ==
    /\ phase = "parsed"
    /\ web_page \in NetDocs
    /\ root_url \in Roots
    /\ target_url = <<>>
    /\ access_url = NoValue
    /\ again_url = NoValue
    /\ access_tag = NONE
    /\ checker = NoValue
    /\ result = NoValue
    /\ NoNet
    /\ NoFactory

\* checker.execute(web_page, root_url) of a checker that may fetch
ExecuteNet(name, done, resp) ==
    /\ phase \in {"parsed", "executed"}
    /\ checker' = name
    /\ result' = done.result
    /\ fetched' = done.fetched
    /\ response' = IF done.fetched = <<>> THEN NoResponse ELSE resp
    /\ access_tag' = NONE
    /\ phase' = "executed"
    /\ UNCHANGED <<target_url, root_url, access_url, again_url, web_page, factoryVars>>

ExecLegalChecker ==
    \E resp \in ProbeResponses :
        ExecuteNet("LegalChecker", LegalChecker(web_page, root_url, resp), resp)

ExecAccessRateChecker ==
    \E resp \in Responses :
        ExecuteNet("AccessRateChecker", AccessRateChecker(web_page, root_url, resp), resp)

NextNet == ExecLegalChecker \/ ExecAccessRateChecker

SpecNet == InitNet /\ [][NextNet]_vars

-----------------------------------------------------------------------------
(* The claims about the fetching checkers.                                 *)

\* the matching text nodes whose nearest enclosing anchor has an href
LegalLinked(doc, root) ==
    SelectSeq(find_all_legal(doc), LAMBDA i : IsUrl(EnclosingLink(doc, i, root)))

\* the root URL without its trailing slashes, then "/mentions-legales"
ProbeUrl(root) == StripChars(root, {SLASH}) \o <<SLASH>> \o MENTIONS_LEGALES

\* C11: LegalChecker returns the resolved href of the first text node, in
\* document order, that matches "mentions légales" and whose nearest
\* enclosing anchor has an href, and makes no probe then; only when no
\* matching text yields a link does it probe root_url + "/mentions-legales",
\* returning that URL iff the probe answers 200 and FAIL otherwise, also
\* when the probe raises or returns nothing.
C11_LegalLinkOrProbe ==
    (phase = "executed" /\ checker = "LegalChecker") =>
        LET linked == LegalLinked(web_page, root_url)
        IN  IF linked # <<>>
            THEN /\ result = EnclosingLink(web_page, linked[1], root_url)
                 /\ fetched = <<>>
            ELSE /\ fetched = <<ProbeUrl(root_url)>>
                 /\ IF response.kind = "response" /\ response.status = OK
                    THEN result = Return("url", ProbeUrl(root_url))
                    ELSE IsFail(result)

\* the accessibility link of the document, as AccessLinkChecker gives it
AccessLink == AccessLinkChecker(web_page, root_url)

RateExecuted == phase = "executed" /\ checker = "AccessRateChecker"

\* C12: AccessRateChecker returns FAIL, and hands nothing to fetch_url,
\* whenever AccessLinkChecker returns FAIL on the same document and root.
C12_NoLinkNoFetch ==
    (RateExecuted /\ IsFail(AccessLink)) => (IsFail(result) /\ fetched = <<>>)

C12_Witness ==
    /\ RateExecuted
    /\ IsFail(AccessLink)
    /\ IsFail(result)
    /\ \E i \in DOMAIN web_page : web_page[i].kind = "tag" /\ web_page[i].name = "a"

\* a text of the linked page that states a rate
StatesRate(t) == (\E j \in 1..Len(t) : t[j] = "conformite") /\ RateSearch(t) # <<>>

\* the fetch failed: an exception, no response, a status other than 200, a
\* page that cannot be parsed or that states no rate
FailingFetch(resp) ==
    \/ resp.kind \in {"raise", "none", "unparsable"}
    \/ resp.status # OK
    \/ \A j \in 1..Len(resp.data) : ~StatesRate(resp.data[j])

\* C13: when AccessLinkChecker yields a link, AccessRateChecker fetches it,
\* no exception escapes its execute, and every failing outcome of the fetch
\* (no response, a status other than 200, an exception while fetching or
\* parsing, a page without a rate) makes it return FAIL.
C13_FetchFailureGivesFail ==
    (RateExecuted /\ IsUrl(AccessLink)) =>
        /\ fetched = <<AccessLink.val>>
        /\ ~Raises(result)
        /\ FailingFetch(response) => IsFail(result)

C13_Witness ==
    /\ RateExecuted
    /\ IsUrl(AccessLink)
    /\ response.kind \in {"raise", "unparsable"}
    /\ IsFail(result)

-----------------------------------------------------------------------------
(* wasc/checker_factory.py and wasc/criterion.py                           *)
(* The dict of a factory is the sequence of its items in insertion order,  *)
(* each a name and a class; an instance is a class and an identity.        *)

Item(name, class) == [name |-> name, class |-> class]

\* list(self.__checker_dict.keys())
available(dict) == [k \in 1..Len(dict) |-> dict[k].name]

\* checker_name in self.__checker_dict
is_registered(dict, checker_name) == \E k \in 1..Len(dict) : dict[k].name = checker_name

\* register that keeps the class registered first
register_first_wins(dict, checker_name, checker_class) ==
    IF is_registered(dict, checker_name) THEN dict
    ELSE Append(dict, Item(checker_name, checker_class))

\* self.__checker_dict[checker_name] = checker_class
register(dict, checker_name, checker_class) ==
    IF is_registered(dict, checker_name)
    THEN [k \in 1..Len(dict) |->
             IF dict[k].name = checker_name THEN Item(checker_name, checker_class) ELSE dict[k]]
    ELSE Append(dict, Item(checker_name, checker_class))

\* the result of a create and the instances that exist after it
Created(r, instances) == [result |-> r, created |-> instances]

\* a new object of a class
\* super().__init__(name, description) of each class of wasc/checkers.py;
\* a class of the tests has neither
DescriptionOf(class) ==
    CASE class = "HeadNbChecker" -> "Nombre de <head>"
      [] class = "HeadLvlChecker" -> "Profondeurs des <head>"
      [] class = "AccessChecker" -> "Mention accessibilite"
      [] class = "AccessLinkChecker" -> "Lien accessibilite"
      [] class = "AccessRateChecker" -> "Taux d'accessibilite"
      [] class = "LegalChecker" -> "Mentions legales"
      [] class = "LangChecker" -> "Lang"
      [] class = "DoctypeChecker" -> "Doctype"
      [] class = "HeaderChecker" -> "Header"
      [] class = "FooterChecker" -> "Footer"
      [] class = "ContactLinkChecker" -> "Lien Contact"
      [] OTHER -> ""

Instance(class, instances) ==
    [class |-> class, id |-> Len(instances) + 1,
     name |-> IF DescriptionOf(class) = "" THEN "" ELSE class,
     description |-> DescriptionOf(class)]

\* create as a lookup that gives None for an unknown name
create_get(dict, checker_name, instances) ==
    IF is_registered(dict, checker_name)
    THEN LET class == dict[CHOOSE k \in 1..Len(dict) : dict[k].name = checker_name].class
         IN  Created(Return("checker", Instance(class, instances)),
                     Append(instances, Instance(class, instances)))
    ELSE Created(ReturnNone, instances)

\* return self.__checker_dict[checker_name]()
create(dict, checker_name, instances) ==
    IF is_registered(dict, checker_name)
    THEN LET class == dict[CHOOSE k \in 1..Len(dict) : dict[k].name = checker_name].class
         IN  Created(Return("checker", Instance(class, instances)),
                     Append(instances, Instance(class, instances)))
    ELSE Created(Raise("KeyError"), instances)

\* the module-level registry without its last registration
DefaultRegistrations_last_missing ==
    <<Item("HeadNbChecker", "HeadNbChecker"), Item("HeadLvlChecker", "HeadLvlChecker"),
      Item("AccessRateChecker", "AccessRateChecker"), Item("LangChecker", "LangChecker"),
      Item("DoctypeChecker", "DoctypeChecker"), Item("AccessChecker", "AccessChecker"),
      Item("AccessLinkChecker", "AccessLinkChecker"), Item("LegalChecker", "LegalChecker"),
      Item("HeaderChecker", "HeaderChecker"), Item("FooterChecker", "FooterChecker")>>

\* checker_factory.register(...), as the module makes them, in order
DefaultRegistrations ==
    <<Item("HeadNbChecker", "HeadNbChecker"), Item("HeadLvlChecker", "HeadLvlChecker"),
      Item("AccessRateChecker", "AccessRateChecker"), Item("LangChecker", "LangChecker"),
      Item("DoctypeChecker", "DoctypeChecker"), Item("AccessChecker", "AccessChecker"),
      Item("AccessLinkChecker", "AccessLinkChecker"), Item("LegalChecker", "LegalChecker"),
      Item("HeaderChecker", "HeaderChecker"), Item("FooterChecker", "FooterChecker"),
      Item("ContactLinkChecker", "ContactLinkChecker")>>

RECURSIVE CreateAll(_, _, _, _)
\* [checker_factory.create(checker) for checker in checkers]: the list made
\* so far, until a create raises
CreateAll(dict, checkers, made, instances) ==
    IF checkers = <<>> THEN Created(Return("list", made), instances)
    ELSE LET c == create(dict, Head(checkers), instances)
         IN  IF Raises(c.result) THEN c
             ELSE CreateAll(dict, Tail(checkers), Append(made, c.result.val), c.created)

\* Criterion.__init__ without the test of the empty list
Criterion_no_empty_check(dict, name, checkers, instances) ==
    LET made == CreateAll(dict, checkers, <<>>, instances)
    IN  IF Raises(made.result) THEN made
        ELSE Created(Return("Criterion", [name |-> name, checkers |-> made.result.val]),
                     made.created)

\* Criterion.__init__: the constructed object, or the exception
Criterion(dict, name, checkers, instances) ==
    IF checkers = <<>> THEN Created(Raise("ValueError"), instances)
    ELSE LET made == CreateAll(dict, checkers, <<>>, instances)
         IN  IF Raises(made.result) THEN made
             ELSE Created(Return("Criterion", [name |-> name, checkers |-> made.result.val]),
                          made.created)

-----------------------------------------------------------------------------
(* The runs of a factory: a new CheckerFactory(), or the module-level      *)
(* checker_factory, which the import of the module fills first.            *)

MaxRegisters == 2     \* register calls besides those of the module
MaxCreated == 2       \* instances built
MaxCheckerNames == 2  \* names in the list given to Criterion

\* the names and classes of the register calls, the names asked for
UserItems ==
    {Item("tmp_name", "TmpChecker"), Item("tmp_name", "OtherChecker"),
     Item("LangChecker", "TmpChecker")}
AskedNames == {"tmp_name", "LangChecker", "AccessChecker", "unknown"}
CriterionNames == {"AccessChecker", "LangChecker", "unknown"}

InitFactory ==
    /\ phase \in {"new", "import"}
    /\ target_url = <<>>
    /\ root_url = <<>>
    /\ access_url = NoValue
    /\ again_url = NoValue
    /\ web_page = <<>>
    /\ access_tag = NONE
    /\ checker = NoValue
    /\ result = NoValue
    /\ NoNet
    /\ NoFactory

\* the register calls made besides those of the module
UserRegisters ==
    IF phase = "new" THEN Len(registered) ELSE Len(registered) - Len(DefaultRegistrations)

\* what a call on the factory leaves alone
FactoryFrame ==
    UNCHANGED <<target_url, root_url, access_url, again_url, web_page, access_tag, checker,
                netVars, executed, runVars>>

\* the next checker_factory.register(...) line of the module
RegisterDefault ==
    /\ phase = "import"
    /\ LET item == DefaultRegistrations[Len(registered) + 1]
       IN  /\ checker_dict' = register(checker_dict, item.name, item.class)
           /\ registered' = Append(registered, item)
           /\ call' = [op |-> "register", name |-> item.name, class |-> item.class,
                       checkers |-> <<>>]
    /\ phase' = IF Len(registered') = Len(DefaultRegistrations) THEN "imported" ELSE "import"
    /\ result' = ReturnNone
    /\ UNCHANGED <<created, criterion>>
    /\ FactoryFrame

Register ==
    /\ phase \in {"new", "imported"}
    /\ UserRegisters < MaxRegisters
    /\ \E item \in UserItems :
          /\ checker_dict' = register(checker_dict, item.name, item.class)
          /\ registered' = Append(registered, item)
          /\ call' = [op |-> "register", name |-> item.name, class |-> item.class,
                      checkers |-> <<>>]
    /\ result' = ReturnNone
    /\ UNCHANGED <<phase, created, criterion>>
    /\ FactoryFrame

Create ==
    /\ phase \in {"new", "imported"}
    /\ Len(created) < MaxCreated
    /\ \E n \in AskedNames :
          /\ result' = create(checker_dict, n, created).result
          /\ created' = create(checker_dict, n, created).created
          /\ call' = [op |-> "create", name |-> n, class |-> "", checkers |-> <<>>]
    /\ UNCHANGED <<phase, checker_dict, registered, criterion>>
    /\ FactoryFrame

Available ==
    /\ phase \in {"new", "imported"}
    /\ result' = Return("list", available(checker_dict))
    /\ call' = [op |-> "available", name |-> "", class |-> "", checkers |-> <<>>]
    /\ UNCHANGED <<phase, checker_dict, registered, created, criterion>>
    /\ FactoryFrame

IsRegistered ==
    /\ phase \in {"new", "imported"}
    /\ \E n \in AskedNames :
          /\ result' = Return("bool", is_registered(checker_dict, n))
          /\ call' = [op |-> "is_registered", name |-> n, class |-> "", checkers |-> <<>>]
    /\ UNCHANGED <<phase, checker_dict, registered, created, criterion>>
    /\ FactoryFrame

\* Criterion(name, checkers), which creates through the module's factory
NewCriterion ==
    /\ phase = "imported"
    /\ \E checkers \in SeqsUpTo(CriterionNames, MaxCheckerNames) :
          /\ Len(created) + Len(checkers) <= MaxCreated
          /\ LET made == Criterion(checker_dict, "criterion", checkers, created)
             IN  /\ result' = made.result
                 /\ created' = made.created
                 /\ criterion' = IF Raises(made.result) THEN criterion
                                 ELSE Append(criterion, made.result.val)
          /\ call' = [op |-> "Criterion", name |-> "criterion", class |-> "",
                      checkers |-> checkers]
    /\ UNCHANGED <<phase, checker_dict, registered>>
    /\ FactoryFrame

NextFactory ==
    \/ RegisterDefault
    \/ Register
    \/ Create
    \/ Available
    \/ IsRegistered
    \/ NewCriterion

SpecFactory == InitFactory /\ [][NextFactory]_vars

-----------------------------------------------------------------------------
(* The claims about the factory and about Criterion.                       *)

\* the names of the register calls made so far
RegisteredNames == {registered[k].name : k \in 1..Len(registered)}

\* the class of the last register call made with a name
LastRegistered(n) ==
    LET calls == {k \in 1..Len(registered) : registered[k].name = n}
    IN  registered[CHOOSE k \in calls : \A j \in calls : j <= k].class

\* a list holds exactly the names registered so far, each once
ListsRegistered(list) ==
    /\ {list[k] : k \in 1..Len(list)} = RegisteredNames
    /\ Len(list) = Cardinality(RegisteredNames)

\* C17: after any sequence of register calls, available() lists exactly the
\* names registered so far, each once; is_registered(n) is true iff n is in
\* available(); create(n) returns a fresh instance of the class most
\* recently registered under n (last write wins).
C17_RegistryTracksRegisters ==
    /\ ListsRegistered(available(checker_dict))
    /\ call.op = "available" =>
          result.outcome = "return" /\ result.type = "list" /\ ListsRegistered(result.val)
    /\ call.op = "is_registered" =>
          /\ result.outcome = "return"
          /\ result.type = "bool"
          /\ result.val = (call.name \in RegisteredNames)
    /\ (call.op = "create" /\ call.name \in RegisteredNames) =>
          /\ result.outcome = "return"
          /\ result.type = "checker"
          /\ result.val.class = LastRegistered(call.name)
          /\ created # <<>>
          /\ result.val = created[Len(created)]
          /\ \A k \in 1..(Len(created) - 1) : created[k].id # result.val.id

C17_Witness ==
    /\ call.op = "create"
    /\ call.name = "tmp_name"
    /\ registered = <<Item("tmp_name", "TmpChecker"), Item("tmp_name", "OtherChecker")>>
    /\ result.outcome = "return"
    /\ result.type = "checker"
    /\ result.val.class = "OtherChecker"
    /\ Len(created) = 2

\* C18: create(n) for a name that was never registered fails with a KeyError
\* that reaches the caller, and leaves the registry as it was: available()
\* and is_registered give the same answers after the failed call as before.
C18_UnknownCreateFails ==
    [][(call'.op = "create" /\ call'.name \notin RegisteredNames) =>
          /\ result'.outcome = "raise"
          /\ result'.type = "KeyError"
          /\ available(checker_dict') = available(checker_dict)
          /\ \A n \in AskedNames :
                is_registered(checker_dict', n) = is_registered(checker_dict, n)
          /\ created' = created]_<<call, vars>>

C18_Witness ==
    /\ call.op = "create"
    /\ call.name = "unknown"
    /\ result.outcome = "raise"
    /\ result.type = "KeyError"
    /\ RegisteredNames # {}

\* the module-level factory with no register call besides the module's
DefaultRegistry == phase = "imported" /\ UserRegisters = 0

\* the names of a list
NamesOf(list) == {list[k] : k \in 1..Len(list)}

C20_ConstructionFails ==
    [][(/\ call'.op = "Criterion"
        /\ \/ call'.checkers = <<>>
           \/ \E k \in 1..Len(call'.checkers) :
                 ~is_registered(checker_dict, call'.checkers[k])) =>
          /\ result'.outcome = "raise"
          /\ result'.type = IF call'.checkers = <<>> THEN "ValueError" ELSE "KeyError"
          /\ criterion' = criterion
          /\ executed' = executed]_<<call, vars>>

C20_Witness ==
    /\ call.op = "Criterion"
    /\ call.checkers = <<"AccessChecker", "unknown">>
    /\ result.outcome = "raise"
    /\ result.type = "KeyError"
    /\ criterion = <<>>
    /\ executed = <<>>

-----------------------------------------------------------------------------
(* wasc/criterion.py: Criterion.execute, and the execute of an instance.   *)

\* what an execute did, the URLs it fetched and the instance after it
Executed(r, urls, instance) == [result |-> r, fetched |-> urls, instance |-> instance]

\* the same, of a checker that may fetch
ExecutedNet(done, instance) == Executed(done.result, done.fetched, instance)

\* execute that keeps in the instance that it has run, and fails afterwards
execute_remembering(instance, doc, root, resp) ==
    IF instance.description = "seen" THEN Executed(ReturnFail, <<>>, instance)
    ELSE Executed(HeadNbChecker(doc, root), <<>>, [instance EXCEPT !.description = "seen"])

\* checker.execute(web_page, url): the execute of the class of the instance;
\* no execute reads or assigns an attribute of self
execute(instance, doc, root, resp) ==
    LET c == instance.class
    IN  CASE c = "HeadNbChecker" -> Executed(HeadNbChecker(doc, root), <<>>, instance)
          [] c = "HeadLvlChecker" -> Executed(HeadLvlChecker(doc, root), <<>>, instance)
          [] c = "AccessChecker" -> Executed(AccessChecker(doc, root), <<>>, instance)
          [] c = "AccessLinkChecker" -> Executed(AccessLinkChecker(doc, root), <<>>, instance)
          [] c = "AccessRateChecker" ->
                ExecutedNet(AccessRateChecker(doc, root, resp), instance)
          [] c = "LegalChecker" -> ExecutedNet(LegalChecker(doc, root, resp), instance)
          [] c = "LangChecker" -> Executed(LangChecker(doc, root), <<>>, instance)
          [] c = "DoctypeChecker" -> Executed(DoctypeChecker(doc, root), <<>>, instance)
          [] c = "HeaderChecker" -> Executed(HeaderChecker(doc, root), <<>>, instance)
          [] c = "FooterChecker" -> Executed(FooterChecker(doc, root), <<>>, instance)
          [] c = "ContactLinkChecker" -> Executed(ContactLinkChecker(doc, root), <<>>, instance)

\* a dict of results as the sequence of its items in insertion order
Entry(key, value) == [key |-> key, value |-> value]

\* a mapping that keeps an entry for every assignment
SetItem_append(d, key, value) == Append(d, Entry(key, value))

\* d[key] = value
SetItem(d, key, value) ==
    IF \E k \in 1..Len(d) : d[k].key = key
    THEN [k \in 1..Len(d) |-> IF d[k].key = key THEN Entry(key, value) ELSE d[k]]
    ELSE Append(d, Entry(key, value))

\* what Criterion.execute did: its outcome, the checkers it executed, the
\* URLs they fetched and the instances after it
Ran(r, log, urls, instances) ==
    [result |-> r, executed |-> log, fetched |-> urls, checkers |-> instances]

RECURSIVE ExecuteAll(_, _, _, _, _, _, _, _)
\* the k-th checker did done: its result is put under its description and
\* the next one is executed; an exception ends the comprehension
ExecuteNext(checkers, k, doc, root, resp, d, log, urls, done) ==
    IF Raises(done.result)
    THEN Ran(done.result, Append(log, checkers[k].name), urls \o done.fetched,
             [checkers EXCEPT ![k] = done.instance])
    ELSE ExecuteAll([checkers EXCEPT ![k] = done.instance], k + 1, doc, root, resp,
                    SetItem(d, done.instance.description, done.result),
                    Append(log, checkers[k].name), urls \o done.fetched)

\* {checker.description : checker.execute(web_page, url) for checker in
\* self.__checkers}, from the k-th checker on
ExecuteAll(checkers, k, doc, root, resp, d, log, urls) ==
    IF k > Len(checkers) THEN Ran(Return("dict", d), log, urls, checkers)
    ELSE ExecuteNext(checkers, k, doc, root, resp, d, log, urls,
                     execute(checkers[k], doc, root, resp))

\* Criterion.execute(web_page, url)
CriterionExecute(crit, doc, root, resp) ==
    ExecuteAll(crit.checkers, 1, doc, root, resp, <<>>, <<>>, <<>>)

-----------------------------------------------------------------------------
(* wasc/report.py: Report.execute.                                         *)

\* what Report.execute did: its outcome, the page it parsed, the checkers
\* that were executed, the URLs that were fetched and the criteria after it
Reported(r, page, log, urls, criteria) ==
    [result |-> r, bs_obj |-> page, executed |-> log, fetched |-> urls,
     criteria |-> criteria]

RECURSIVE ReportLoop(_, _, _, _, _, _, _, _)
\* the k-th criterion did ran: its result is put under its name and the
\* next one is executed; an exception ends the loop
ReportNext(criteria, k, doc, url, fetch, d, log, urls, ran) ==
    IF Raises(ran.result)
    THEN Reported(ran.result, doc, log \o ran.executed, urls \o ran.fetched,
                  [criteria EXCEPT ![k].checkers = ran.checkers])
    ELSE ReportLoop([criteria EXCEPT ![k].checkers = ran.checkers], k + 1, doc, url, fetch,
                    SetItem(d, criteria[k].name, ran.result),
                    log \o ran.executed, urls \o ran.fetched)

\* for crit in self.__criteria : result[crit.name] = crit.execute(...), from
\* the k-th criterion on
ReportLoop(criteria, k, doc, url, fetch, d, log, urls) ==
    IF k > Len(criteria) THEN Reported(Return("dict", d), doc, log, urls, criteria)
    ELSE ReportNext(criteria, k, doc, url, fetch, d, log, urls,
                    CriterionExecute(criteria[k], doc, url, fetch))

\* Report(label, url, criteria).execute(): resp is what requests.get gives,
\* an exception or a response, and fetch what fetch_url gives to a checker
ReportExecute(criteria, url, resp, fetch) ==
    IF resp.kind = "raise"
    THEN Reported(Raise("RequestException"), <<>>, <<>>, <<url>>, criteria)
    ELSE IF resp.status = OK
         THEN ReportLoop(criteria, 1, resp.data, url, fetch, <<>>, <<>>, <<url>>)
         ELSE Reported(Return("dict", <<Entry("bad response", resp.status)>>),
                       <<>>, <<>>, <<url>>, criteria)

MaxCritCheckers == 2 \* checker names of a Criterion of SpecCriterion

\* a few parsed pages: empty, with a linked mention, and with an unlinked
\* mention and no html element
CritDocs ==
    {Wrapped(<<>>),
     Wrapped(<<BLink(HREF_ACCESS, MENTION)>>),
     Bare(<<BNode(Text(MENTION, 0))>>)}

\* what fetch_url gives to the checkers of a Criterion
CritResponses == {Response(404, <<>>), Response(OK, <<RATE_100>>)}

\* the non-empty lists of registered names a Criterion is made of
\* of one registered name, or of several of four of them
CritNames == {"HeadNbChecker", "LangChecker", "AccessLinkChecker", "AccessRateChecker"}
CritLists ==
    {<<n>> : n \in NamesOf(available(DefaultRegistrations))}
    \cup (SeqsUpTo(CritNames, MaxCritCheckers) \ {<<>>})

\* import wasc.checkers, then Criterion("criterion", checkers) and a parsed
\* page
InitCriterion ==
    /\ phase = "parsed"
    /\ web_page \in CritDocs
    /\ root_url \in Roots
    /\ target_url = <<>>
    /\ access_url = NoValue
    /\ again_url = NoValue
    /\ access_tag = NONE
    /\ checker = NoValue
    /\ result = NoValue
    /\ NoNet
    /\ checker_dict = DefaultRegistrations
    /\ registered = <<>>
    /\ \E checkers \in CritLists :
          LET made == Criterion(DefaultRegistrations, "criterion", checkers, <<>>)
          IN  /\ created = made.created
              /\ criterion = <<made.result.val>>
              /\ call = [op |-> "Criterion", name |-> "criterion", class |-> "",
                         checkers |-> checkers]
    /\ executed = <<>>
    /\ NoRun

CriterionFrame ==
    UNCHANGED <<target_url, root_url, access_url, again_url, web_page, access_tag,
                checker_dict, registered, runVars>>

\* the state after criterion.execute did ran
CriterionRan(ran, resp) ==
    /\ result' = ran.result
    /\ executed' = ran.executed
    /\ fetched' = ran.fetched
    /\ response' = resp
    /\ created' = ran.checkers
    /\ criterion' = <<[criterion[1] EXCEPT !.checkers = ran.checkers]>>
    /\ checker' = "criterion"
    /\ call' = [call EXCEPT !.op = "Criterion.execute"]
    /\ phase' = "executed"
    /\ CriterionFrame

\* criterion.execute(web_page, root_url)
ExecCriterion ==
    \E resp \in CritResponses :
        CriterionRan(CriterionExecute(criterion[1], web_page, root_url, resp), resp)

\* the state after the execute of the k-th instance did done
CheckerDone(k, done, resp) ==
    /\ result' = done.result
    /\ executed' = <<created[k].name>>
    /\ fetched' = done.fetched
    /\ response' = resp
    /\ created' = [created EXCEPT ![k] = done.instance]
    /\ criterion' = <<[criterion[1] EXCEPT !.checkers[k] = done.instance]>>
    /\ checker' = created[k].class
    /\ call' = [call EXCEPT !.op = "execute", !.class = created[k].class]
    /\ phase' = "executed"
    /\ CriterionFrame

\* checker.execute(web_page, root_url) on one of the instances
ExecChecker ==
    \E k \in DOMAIN created, resp \in CritResponses :
        CheckerDone(k, execute(created[k], web_page, root_url, resp), resp)

\* another page is downloaded and parsed
Parse ==
    /\ \E doc \in CritDocs, root \in Roots :
          /\ web_page' = doc
          /\ root_url' = root
    /\ call' = [call EXCEPT !.op = "parse"]
    /\ phase' = "parsed"
    /\ UNCHANGED <<target_url, access_url, again_url, access_tag, checker, result,
                   netVars, checker_dict, registered, created, criterion, executed, runVars>>

\* what requests.get gives to Report.execute
ReportResponses ==
    {FetchRaises, Response(404, <<>>)} \cup {Response(OK, doc) : doc \in CritDocs}

\* the state after Report.execute did done
ReportDone(root, resp, done) ==
    /\ result' = done.result
    /\ executed' = done.executed
    /\ fetched' = done.fetched
    /\ response' = resp
    /\ root_url' = root
    /\ web_page' = done.bs_obj
    /\ criterion' = done.criteria
    /\ created' = done.criteria[1].checkers
    /\ checker' = "report"
    /\ call' = [call EXCEPT !.op = "Report.execute"]
    /\ phase' = "reported"
    /\ UNCHANGED <<target_url, access_url, again_url, access_tag,
                   checker_dict, registered, runVars>>

\* Report(label, root, criteria).execute() for a root URL
ExecReport ==
    \E root \in Roots, resp \in ReportResponses, fetch \in CritResponses :
        ReportDone(root, resp, ReportExecute(criterion, root, resp, fetch))

NextCriterion == ExecCriterion \/ ExecChecker \/ Parse

SpecCriterion == InitCriterion /\ [][NextCriterion]_vars

\* a Report of the Criterion is executed, any number of times
NextReport == ExecReport

SpecReport == InitCriterion /\ [][NextReport]_vars

-----------------------------------------------------------------------------
(* The claims about Criterion.execute and the reuse of instances.          *)

\* the state after criterion.execute(web_page, root_url)
CriterionExecuted == call.op = "Criterion.execute"

\* the value of a mapping under a key, as a set of at most one value
ValuesUnder(d, key) == {d[k].value : k \in {j \in DOMAIN d : d[j].key = key}}

\* C21: Criterion.execute(document, url) executes every contained checker
\* exactly once, in list order, and returns a mapping whose value under each
\* checker's description is the result of that checker's execute on
\* (document, url).
C21_EveryCheckerInOrder ==
    CriterionExecuted =>
        LET checkers == criterion[1].checkers
        IN  /\ executed = [k \in DOMAIN checkers |-> checkers[k].name]
            /\ ~Raises(result)
            /\ result.type = "dict"
            /\ \A k \in DOMAIN checkers :
                  ValuesUnder(result.val, checkers[k].description)
                    = {execute(checkers[k], web_page, root_url, response).result}

\* C29: the mapping returned by Criterion.execute has exactly as many
\* entries as the list of checker names the Criterion was built from, for
\* every non-empty list of registered names, the same name twice included.
C29_OneEntryPerName ==
    (CriterionExecuted /\ ~Raises(result)) => Len(result.val) = Len(call.checkers)

\* C29 as amended: the mapping has one entry per distinct name of the list.
C29_OneEntryPerDistinctName ==
    (CriterionExecuted /\ ~Raises(result)) =>
        /\ Cardinality({result.val[k].key : k \in DOMAIN result.val}) = Len(result.val)
        /\ Len(result.val) = Cardinality(NamesOf(call.checkers))

C29_Witness ==
    /\ CriterionExecuted
    /\ ~Raises(result)
    /\ Len(call.checkers) = 2
    /\ Len(result.val) = 1

\* a step that executes one instance of a checker without network access
ExecutesLocal == call'.op = "execute" /\ checker' \in LocalCheckers

-----------------------------------------------------------------------------
(* wasc/cli/__init__.py: the wasc command.                                 *)

DEFAULT_CHECKERS ==
    <<"AccessChecker", "AccessLinkChecker", "AccessRateChecker", "DoctypeChecker",
      "LangChecker", "LegalChecker", "ContactLinkChecker">>

\* no --checkers option was given
NoFile == [given |-> FALSE, lines |-> <<>>]
File(lines) == [given |-> TRUE, lines |-> lines]

\* read_checkers(checkers): the file holds one checker name per line
read_checkers(checkers) == checkers.lines

\* checker_names, after the test of the option
CheckerNames(checkers) ==
    IF checkers.given THEN read_checkers(checkers) ELSE DEFAULT_CHECKERS

\* a list of the registered names only
CheckersList_skip_unknown(dict, checker_names, instances) ==
    CreateAll(dict, SelectSeq(checker_names, LAMBDA n : is_registered(dict, n)), <<>>,
              instances)

\* checkers_list = [checker_factory.create(checker_name) for checker_name in
\* checker_names]
CheckersList(dict, checker_names, instances) ==
    CreateAll(dict, checker_names, <<>>, instances)

\* bs_obj: None, or the BeautifulSoup object of the data of a response
NoDocument == [parsed |-> FALSE, doc |-> <<>>]
BeautifulSoup(data) == [parsed |-> TRUE, doc |-> data]

\* the error texts: "", "Problème lors du téléchargement" and
\* "HTML Error Status " + str(response.status)
NoError == <<>>
DownloadError == <<"Probleme lors du telechargement">>
StatusError(status) == <<"HTML Error Status ", status>>

\* bs_obj and error for a response of buffered_downloads (None when the
\* download failed, whatever the failure)
Parsed(resp) ==
    IF resp.kind = "response"
    THEN IF resp.status = OK
         THEN [bs_obj |-> BeautifulSoup(resp.data), error |-> NoError]
         ELSE [bs_obj |-> NoDocument, error |-> StatusError(resp.status)]
    ELSE [bs_obj |-> NoDocument, error |-> DownloadError]

\* websites_dict[url.strip("/")]: the label of the last pair with that key
Label(sites, url) ==
    LET key == StripChars(url, {SLASH})
        ks == {k \in DOMAIN sites : StripChars(sites[k].url, {SLASH}) = key}
    IN  sites[CHOOSE k \in ks : \A j \in ks : j <= k].label

\* what the analysis of one website did: its outcome, the checkers it
\* executed and the URLs they fetched
Analysed(r, log, urls) == [result |-> r, executed |-> log, fetched |-> urls]

RECURSIVE Analysis(_, _, _, _, _, _, _, _)
\* the k-th checker did done: its result is put in the row and the next one
\* is taken; an exception ends the comprehension
AnalysisNext(checkers_list, k, bs_obj, url, resp, row, log, urls, done) ==
    IF Raises(done.result)
    THEN Analysed(done.result, Append(log, checkers_list[k].name), urls \o done.fetched)
    ELSE Analysis(checkers_list, k + 1, bs_obj, url, resp, Append(row, done.result),
                  Append(log, checkers_list[k].name), urls \o done.fetched)

\* [checker.execute(bs_obj, url) if bs_obj else FAIL for checker in
\* checkers_list], from the k-th checker on
Analysis(checkers_list, k, bs_obj, url, resp, row, log, urls) ==
    IF k > Len(checkers_list) THEN Analysed(Return("list", row), log, urls)
    ELSE IF ~bs_obj.parsed
         THEN Analysis(checkers_list, k + 1, bs_obj, url, resp,
                       Append(row, ReturnFail), log, urls)
         ELSE AnalysisNext(checkers_list, k, bs_obj, url, resp, row, log, urls,
                           execute(checkers_list[k], bs_obj.doc, url, resp))

\* starter + analysis
Row(label, url, error, analysis) ==
    [label |-> label, url |-> url, error |-> error, analysis |-> analysis]

MaxRunCheckers == 2 \* lines of a file of checker names
MaxWebsites == 2    \* websites of a run

\* the files of checker names, and no file
RunNames == {"LangChecker", "AccessLinkChecker", "unknown"}
RunFiles == {NoFile} \cup {File(lines) : lines \in SeqsUpTo(RunNames, MaxRunCheckers)}

\* the (label, URL) pairs of a file of websites, of distinct URLs
Website(label, url) == [label |-> label, url |-> url]
RunPairs ==
    {Website("A", HTTP \o <<":", SLASH, SLASH, "e">>),
     Website("B", HTTP \o <<":", SLASH, SLASH, "e", SLASH, "f", SLASH>>),
     Website("C", HTTP \o <<":", SLASH, SLASH, "g">>)}
RunWebsites ==
    {sites \in SeqsUpTo(RunPairs, MaxWebsites) :
        \A j, k \in DOMAIN sites : j # k => sites[j] # sites[k]}

\* what buffered_downloads yields for a URL, and what fetch_url gives to a
\* checker that calls it
RunResponses ==
    {FetchNone, Response(404, <<>>)} \cup {Response(OK, doc) : doc \in CritDocs}
RunFetches == {FetchNone, Response(OK, <<RATE_100>>)}

\* wasc is called with a file of websites and a file of checker names or none
InitRun ==
    /\ phase = "start"
    /\ web_page = <<>>
    /\ root_url = <<>>
    /\ target_url = <<>>
    /\ access_url = NoValue
    /\ again_url = NoValue
    /\ access_tag = NONE
    /\ checker = NoValue
    /\ result = NoValue
    /\ NoNet
    /\ checker_dict = DefaultRegistrations
    /\ registered = <<>>
    /\ created = <<>>
    /\ criterion = <<>>
    /\ \E checkers \in RunFiles :
          call = [op |-> "wasc", name |-> IF checkers.given THEN "file" ELSE "default",
                  class |-> "", checkers |-> CheckerNames(checkers)]
    /\ executed = <<>>
    /\ websites \in RunWebsites
    /\ pending = {}
    /\ results = <<>>
    /\ iter_limit = 0

RunFrame ==
    UNCHANGED <<target_url, access_url, again_url, access_tag, checker, checker_dict,
                registered, criterion, call, websites, iter_limit>>

\* the list of checkers is created; an exception ends the command
CreateCheckers ==
    /\ phase = "start"
    /\ LET made == CheckersList(checker_dict, call.checkers, created)
       IN  /\ created' = made.created
           /\ result' = made.result
           /\ phase' = IF Raises(made.result) THEN "failed" ELSE "created"
    /\ UNCHANGED <<web_page, root_url, netVars, executed, pending, results>>
    /\ RunFrame

\* the websites are read and their URLs are put in the download buffer
LoadBuffer ==
    /\ phase = "created"
    /\ pending' = {websites[k].url : k \in DOMAIN websites}
    /\ phase' = "loaded"
    /\ UNCHANGED <<web_page, root_url, result, netVars, created, executed, results>>
    /\ RunFrame

\* the state after the turn of the loop for url, whose response gave page
\* and whose analysis did done
Turn(url, resp, page, done) ==
    /\ pending' = pending \ {url}
    /\ response' = resp
    /\ root_url' = url
    /\ web_page' = page.bs_obj.doc
    /\ executed' = done.executed
    /\ fetched' = <<url>> \o done.fetched
    /\ result' = done.result
    /\ IF Raises(done.result)
       THEN /\ phase' = "aborted"
            /\ results' = results
       ELSE /\ phase' = "analysed"
            /\ results' = Append(results,
                  Row(Label(websites, url), url, page.error, done.result.val))

\* one turn of the loop: buffered_downloads yields a URL and its response,
\* the page is parsed and analysed and its row is appended; an exception of
\* a checker ends the command
Download ==
    /\ phase \in {"loaded", "analysed"}
    /\ \E url \in pending, resp \in RunResponses, fetch \in RunFetches :
          Turn(url, resp, Parsed(resp),
               Analysis(created, 1, Parsed(resp).bs_obj, url, fetch, <<>>, <<>>, <<>>))
    /\ UNCHANGED created
    /\ RunFrame

\* the buffer is empty: the results are put in a DataFrame and written
Output ==
    /\ phase \in {"loaded", "analysed"}
    /\ pending = {}
    /\ phase' = "done"
    /\ UNCHANGED <<web_page, root_url, result, netVars, created, executed, pending, results>>
    /\ RunFrame

NextRun == CreateCheckers \/ LoadBuffer \/ Download \/ Output

SpecRun == InitRun /\ [][NextRun]_vars

-----------------------------------------------------------------------------
(* The claims about the wasc command and Report.                           *)

\* a name of the list of checker names is not registered
UnknownName == \E k \in DOMAIN call.checkers : ~is_registered(checker_dict, call.checkers[k])

\* C22: in the wasc command, a list of checker names that holds a name that
\* is not registered makes the run fail with an error before any website is
\* downloaded and before any checker is executed; the unknown name is never
\* skipped.
C22_UnknownNameFailsFirst ==
    UnknownName =>
        /\ phase \in {"start", "failed"}
        /\ phase = "failed" => (Raises(result) /\ result.type = "KeyError")
        /\ executed = <<>>
        /\ fetched = <<>>
        /\ pending = {}
        /\ results = <<>>

C22_Witness ==
    /\ phase = "failed"
    /\ call.checkers = <<"LangChecker", "unknown">>
    /\ websites # <<>>

\* the fetch of the last website gave no response with status 200
FetchFailed == ~(response.kind = "response" /\ response.status = OK)

\* a turn of the loop of the wasc command has been taken
Turned == phase \in {"analysed", "aborted"}

\* Report.execute has been called
ReportExecuted == call.op = "Report.execute"

\* C23: in the driver, for each website, checkers are executed iff the fetch
\* returned a response with status 200 that was parsed, never with an absent
\* document; on any fetch failure (no response, another status, timeout,
\* network exception) an error descriptor is recorded for the website, no
\* checker or criterion is executed and every checker result for it is FAIL.
C23_NoDocumentNoExecute ==
    /\ Turned =>
          /\ (executed # <<>>) <=> (~FetchFailed /\ created # <<>>)
          /\ FetchFailed =>
                /\ phase = "analysed"
                /\ results[Len(results)].url = root_url
                /\ results[Len(results)].error # NoError
                /\ results[Len(results)].analysis = [k \in DOMAIN created |-> ReturnFail]
    /\ ReportExecuted =>
          /\ (executed # <<>>) <=> ~FetchFailed
          /\ FetchFailed =>
                /\ ~Raises(result)
                /\ \A k \in DOMAIN created :
                      ValuesUnder(result.val, created[k].description) = {ReturnFail}

\* C24: a run over a list of websites completes: no fetch failure and no
\* checker outcome on one website ends it before the remaining websites are
\* processed, and at its end results holds exactly one entry for each
\* (label, URL) pair of the list.
C24_RunCompletes ==
    /\ phase # "aborted"
    /\ phase = "done" =>
          /\ Len(results) = Len(websites)
          /\ \A k \in DOMAIN websites :
                Cardinality({j \in DOMAIN results :
                    results[j].label = websites[k].label
                    /\ results[j].url = websites[k].url}) = 1

-----------------------------------------------------------------------------
(* Further claims about the checkers of the accessibility mention.         *)

\* a level statement, up to letter case and the kind of space
LevelStatement(t) ==
    /\ Len(t) = 3
    /\ Lower(t[1]) \in mentions
    /\ t[2] \in {SP, NBSP}
    /\ Lower(t[3]) = "conforme"

\* C27: whenever AccessChecker returns a value other than FAIL, that value
\* is, up to letter case and the kind of space, one of "non conforme",
\* "partiellement conforme" and "totalement conforme", whatever other words
\* or colons stand before or after the statement in the matching text.
C27_LevelStatementOnly ==
    (phase = "executed" /\ checker = "AccessChecker" /\ ~IsFail(result)) =>
        /\ result.outcome = "return"
        /\ result.type = "text"
        /\ LevelStatement(result.val)

AccessLinkExecuted == phase = "executed" /\ checker = "AccessLinkChecker"

\* the matching text nodes whose nearest enclosing anchor has an href
LinkedMentions(doc, root) ==
    SelectSeq(find_all_access(doc), LAMBDA i : IsUrl(EnclosingLink(doc, i, root)))

-----------------------------------------------------------------------------
(* A further claim about AccessRateChecker.                                *)

DigitValue(c) == CASE c = "0" -> 0 [] c = "1" -> 1 [] c = "5" -> 5 [] c = "7" -> 7

\* 100, or one or two digits and then any number of groups of a separator
\* and digits
RateNumber(n) ==
    \/ n = <<"1", "0", "0">>
    \/ /\ n # <<>>
       /\ \A i \in DOMAIN n : n[i] \in Digits \cup Separators
       /\ n[1] \in Digits
       /\ n[Len(n)] \in Digits
       /\ \A i \in 1..(Len(n) - 1) : ~(n[i] \in Separators /\ n[i + 1] \in Separators)
       /\ Len(n) >= 3 => (n[2] \in Separators \/ n[3] \in Separators)

\* the value of the digits of n before its first separator
IntegerPart(n) ==
    IF Len(n) >= 2 /\ n[2] \in Digits
    THEN IF Len(n) >= 3 /\ n[3] \in Digits
         THEN 100 * DigitValue(n[1]) + 10 * DigitValue(n[2]) + DigitValue(n[3])
         ELSE 10 * DigitValue(n[1]) + DigitValue(n[2])
    ELSE DigitValue(n[1])

\* in t the number n stands after a whitespace and before spaces and a "%"
StandsBeforePercent(t, n) ==
    \E p \in 1..Len(t) :
        /\ t[p] \in Whitespace
        /\ p + Len(n) < Len(t)
        /\ SubSeq(t, p + 1, p + Len(n)) = n
        /\ \E q \in (p + Len(n) + 1)..Len(t) :
              /\ t[q] = PERCENT
              /\ \A j \in (p + Len(n) + 1)..(q - 1) : t[j] = SP

\* the numbers that stand so in a text that holds "conformité"
RatesOf(t) ==
    IF \E j \in 1..Len(t) : t[j] = "conformite"
    THEN {n \in {SubSeq(t, a, b) : a, b \in 1..Len(t)} :
             RateNumber(n) /\ StandsBeforePercent(t, n)}
    ELSE {}

\* C30: whenever AccessRateChecker returns a value other than FAIL, it is
\* "N%" where N is 100 or an integer of one or two digits, then any number
\* of groups of "." or "," and digits; N is taken from the first text of the
\* linked page, in document order, that holds a "%" and "conformité" and in
\* which such a number, after a whitespace, stands before "%"; the integer
\* part of N is never above 100.
C30_RateFormat ==
    (RateExecuted /\ result.outcome = "return" /\ ~IsFail(result)) =>
        LET n == SubSeq(result.val, 1, Len(result.val) - 1)
            page == response.data
            first == {k \in DOMAIN page : RatesOf(page[k]) # {}}
        IN  /\ result.type = "rate"
            /\ result.val[Len(result.val)] = PERCENT
            /\ RateNumber(n)
            /\ IntegerPart(n) <= 100
            /\ response.kind = "response" /\ response.status = OK
            /\ first # {}
            /\ n \in RatesOf(page[CHOOSE k \in first : \A j \in first : k <= j])

C30_Witness ==
    /\ RateExecuted
    /\ result.outcome = "return"
    /\ result.type = "rate"
    /\ result.val = <<"1", "0", "0", PERCENT>>
    /\ Len(response.data) = 2
    /\ response.data[1] = <<"remise", SP, "5", PERCENT>>

-----------------------------------------------------------------------------
(* wasc/default_checkers.py: the search of DFTT05.execute in the page of   *)
(* the accessibility statement.                                            *)

RESULTATS == <<"Resultats", SP, "des", SP, "tests">>

\* the fail value of the checkers of default_checkers.py
ReturnFalse == Return("bool", FALSE)

\* the text nodes that re.compile("Résultats des tests", re.IGNORECASE)
\* matches, in document order
find_all_resultats(page) ==
    SelectSeq([k \in DOMAIN page |-> k],
              LAMBDA i : page[i].kind = "text"
                         /\ \E p \in 1..Len(page[i].string) :
                               /\ p + 4 <= Len(page[i].string)
                               /\ [k \in 1..5 |-> Lower(page[i].string[p + k - 1])]
                                    = [k \in 1..5 |-> Lower(RESULTATS[k])])

\* tag.next_siblings: the nodes after tag under the same parent, in order
next_siblings(page, tag) ==
    SelectSeq([k \in DOMAIN page |-> k],
              LAMBDA j : j > tag /\ tag # DOCUMENT /\ page[j].parent = page[tag].parent)

\* tag.find(string = re.compile("%")): the first text under tag that holds a
\* "%", as a sequence of at most one node
find_percent(page, tag) ==
    LET found == SelectSeq([k \in DOMAIN page |-> k],
                    LAMBDA j : /\ page[j].kind = "text"
                               /\ Encloses(page, tag, j)
                               /\ \E p \in 1..Len(page[j].string) :
                                     page[j].string[p] = PERCENT)
    IN  IF found = <<>> THEN <<>> ELSE <<found[1]>>

\* the statements found under the elements of next_siblings, in order
Statements(page, tag) ==
    LET sibs == SelectSeq(next_siblings(page, tag),
                    LAMBDA j : page[j].kind = "tag" /\ find_percent(page, j) # <<>>)
    IN  [k \in DOMAIN sibs |-> find_percent(page, sibs[k])[1]]

\* statement_str[j] for an index j of Python, negative ones count from the end
CharAt(t, j) == IF j >= 0 THEN t[j + 1] ELSE t[Len(t) + j + 1]

RECURSIVE Counter(_, _, _, _)
\* for j in range(index-1, index-10, -1): the characters of "0123456789 ,."
\* counted before the loop breaks
Counter(t, index, j, counter) ==
    IF j <= index - 10 THEN counter
    ELSE IF CharAt(t, j) \in Digits \cup Separators \cup {SP}
         THEN Counter(t, index, j - 1, counter + 1)
         ELSE counter

\* statement_str[a:b] for a possibly negative a and 0 <= b <= len
Slice(t, a, b) ==
    LET from == IF a >= 0 THEN a ELSE IF Len(t) + a >= 0 THEN Len(t) + a ELSE 0
    IN  IF from >= b THEN <<>> ELSE SubSeq(t, from + 1, b)

\* the compliance: the characters counted and the "%", without the spaces
Compliance(t) ==
    LET index == (CHOOSE p \in 1..Len(t) :
                     t[p] = PERCENT /\ \A q \in 1..(p - 1) : t[q] # PERCENT) - 1
        counter == Counter(t, index, index - 1, 0)
    IN  SelectSeq(Slice(t, index - counter, index + 1), LAMBDA c : c # SP)

MaxNesting == 11 \* div elements around the heading of a page of WalkPages

\* the text "Résultats des tests" in an h2 inside so many nested div
Nested(depth) ==
    [k \in 1..depth |-> Tag("div", k - 1)]
    \o <<Tag("h2", depth), Text(RESULTATS, depth + 1)>>

\* the texts of a statement: "Taux 75 %" and "75% 1"
WalkStatements ==
    {<<"Taux", SP, "7", "5", SP, PERCENT>>, <<"7", "5", PERCENT, SP, "1">>}

\* the pages of an accessibility statement: the heading alone, or followed,
\* as a sibling of the heading or of one of its ancestors, by a p element
\* that holds a statement or by the bare text of a statement
WalkPages ==
    UNION {{Nested(depth)}
           \cup {Nested(depth) \o <<Tag("p", depth + 1 - level), Text(t, depth + 3)>> :
                    level \in 1..(depth + 1), t \in WalkStatements}
           \cup {Nested(depth) \o <<Text(t, depth + 1 - level)>> :
                    level \in 1..(depth + 1), t \in WalkStatements} :
           depth \in 0..MaxNesting}
    \cup {<<Tag("p", DOCUMENT), Text(t, 1)>> : t \in WalkStatements}

\* the page of the accessibility statement was fetched and parsed
InitWalk ==
    /\ phase = "parsed"
    /\ web_page \in WalkPages
    /\ root_url = <<>>
    /\ target_url = <<>>
    /\ access_url = NoValue
    /\ again_url = NoValue
    /\ access_tag = NONE
    /\ checker = "DFTT05"
    /\ result = NoValue
    /\ NoNet
    /\ NoFactory

WalkFrame ==
    UNCHANGED <<target_url, root_url, access_url, again_url, web_page, checker, netVars,
                checker_dict, registered, created, criterion, call, executed,
                websites, pending, results>>

\* for access_string in access_page.stripped_strings: a string matches and
\* access_tag is the parent of the first match, or none does and False is
\* returned
Locate ==
    /\ phase = "parsed"
    /\ LET found == find_all_resultats(web_page)
       IN  IF found = <<>>
           THEN /\ result' = ReturnFalse
                /\ phase' = "executed"
                /\ UNCHANGED <<access_tag, iter_limit>>
           ELSE /\ access_tag' = web_page[found[1]].parent
                /\ iter_limit' = 10
                /\ phase' = "walking"
                /\ UNCHANGED result
    /\ WalkFrame

\* one turn of while iter_limit: the following siblings of access_tag are
\* scanned; the first statement found is returned, else the search goes on
\* at the parent; the next_siblings of None raise
Scan ==
    /\ phase = "walking"
    /\ iter_limit > 0
    /\ IF access_tag = NONE
       THEN /\ result' = Raise("AttributeError")
            /\ phase' = "executed"
            /\ UNCHANGED <<access_tag, iter_limit>>
       ELSE IF Statements(web_page, access_tag) # <<>>
       THEN /\ result' = Return("rate",
                            Compliance(web_page[Statements(web_page, access_tag)[1]].string))
            /\ phase' = "executed"
            /\ UNCHANGED <<access_tag, iter_limit>>
       ELSE /\ access_tag' = ParentOf(web_page, access_tag)
            /\ iter_limit' = iter_limit - 1
            /\ UNCHANGED <<phase, result>>
    /\ WalkFrame

\* iter_limit is 0: the loops end and False is returned
GiveUp ==
    /\ phase = "walking"
    /\ iter_limit = 0
    /\ result' = ReturnFalse
    /\ phase' = "executed"
    /\ UNCHANGED <<access_tag, iter_limit>>
    /\ WalkFrame

NextWalk == Locate \/ Scan \/ GiveUp

SpecWalk == InitWalk /\ [][NextWalk]_vars

-----------------------------------------------------------------------------
(* The claim about the search of DFTT05.                                   *)

\* the levels the search has examined
Examined == 10 - iter_limit

\* the node whose following siblings are scanned at a level, NONE above the
\* document
RECURSIVE AtLevel(_, _)
AtLevel(page, level) ==
    IF level = 1 THEN page[find_all_resultats(page)[1]].parent
    ELSE IF AtLevel(page, level - 1) = NONE THEN NONE
    ELSE ParentOf(page, AtLevel(page, level - 1))

\* a statement stands among the following siblings examined at one of the
\* first ten levels
WithinLimit(page) ==
    \E level \in 1..10 :
        /\ AtLevel(page, level) # NONE
        /\ Statements(page, AtLevel(page, level)) # <<>>

\* C25: once a text that holds "Résultats des tests" is located, the search
\* examines at most 10 ancestor levels, scanning the following siblings at
\* each level for a text that holds "%"; it returns the fail value when none
\* is found within that limit, and it ends without raising.
C25_TenLevelsNoRaise ==
    find_all_resultats(web_page) # <<>> =>
        /\ phase \in {"walking", "executed"} => Examined \in 0..10
        /\ phase = "executed" =>
              /\ ~Raises(result)
              /\ ~WithinLimit(web_page) => result = ReturnFalse
====
